---- MODULE Spec2Model ----
(***************************************************************************)
(* Data-access layer of the Benjo Moments back office (database_sa.py):    *)
(* the income, expenses, customers, invoices, gallery and audit_logs       *)
(* tables, the validators, the soft-delete / restore operations, the       *)
(* invoice numbering with its retry loop, and the read-only listings and   *)
(* totals.  A table is a sequence of rows; the id of a row is its index    *)
(* (autoincrement primary key, rows are never physically removed from the  *)
(* five soft-deletable tables).                                            *)
(***************************************************************************)
EXTENDS Integers, Sequences, FiniteSets, TLC

\* Number of data-layer calls a behaviour of the whole back office may start;
\* also the range of the clock read by datetime.utcnow().
MaxTime == 4

\* The same for the behaviours of direct calls on invoices, and on customers.
MaxDirectTime == 4

MaxCustomerTime == 4

\* The same for direct calls of the whole data layer.
MaxDataTime == 3

\* Worker starts, restarts and back-office calls in a behaviour of the start-up.
MaxBootTime == 5

\* Data-layer calls made by the requests of a behaviour of the web layer.
MaxWebTime == 2

\* Data-layer calls per behaviour of the back-office forms.
MaxFormTime == 4

\* Concurrent request workers (gunicorn workers, db.py pool sizing comment).
Workers == 2

\* range(20) of add_invoice and of _gen_invoice_number.
MaxAttempts == 20

GenAttempts == 20

VARIABLES
    dialect,    \* database backend behind DATABASE_URL
    horizon,    \* clock reading after which no further call starts
    now,        \* clock: number of data-layer calls started so far
    income,     \* table income
    expenses,   \* table expenses
    customers,  \* table customers
    invoices,   \* table invoices
    gallery,    \* table gallery
    audit,      \* table audit_logs
    calls,      \* per worker: the call it is in the middle of, if any
    ret,        \* outcome of the data-layer call that finished last
    users,      \* table users
    settings,   \* table website_settings
    pricing,    \* table pricing_packages
    assets,     \* table assets
    messages,   \* table contact_messages
    hero,       \* table hero_images
    config,     \* config.py: TEST_AUTH_MODE, TEST_PIN, DEFAULT_ADMIN_PASSWORD
    sessions,   \* per browser: the Flask session its cookie carries
    resp        \* the response to the request served last

\* The tables without soft delete.
content == <<users, settings, pricing, assets, messages, hero>>

\* What a data-layer call reads of its surroundings and never writes:
\* config.py and, through _actor_email, the session of the request.
web == <<config, sessions>>

vars ==
    <<dialect, horizon, now, income, expenses, customers, invoices, gallery, audit,
      calls, ret, content, web, resp>>

tables == <<income, expenses, customers, invoices, gallery>>

-----------------------------------------------------------------------------
(* Values *)

\* SQL NULL / Python None.  A nullable value is the empty set or a singleton.
NULL == {}

Some(x) == {x}

\* A Python float: a finite number (counted in whole currency units) or nan.
Num(n) == [nan |-> FALSE, v |-> n]

NaN == [nan |-> TRUE, v |-> 0]

\* float comparison: every comparison with nan is False.
FLess(a, b) == ~a.nan /\ ~b.nan /\ a.v < b.v

FGreater(a, b) == FLess(b, a)

\* float / SQL numeric addition and subtraction: nan is absorbing.
FAdd(a, b) == IF a.nan \/ b.nan THEN NaN ELSE Num(a.v + b.v)

FSub(a, b) == IF a.nan \/ b.nan THEN NaN ELSE Num(a.v - b.v)

\* float(value): the raw values a caller may pass and what float() makes of
\* them; "abc", "" and None raise (ok = FALSE).
ParseFloat(value) ==
    CASE value = "0"   -> [ok |-> TRUE, val |-> Num(0)]
      [] value = "5"   -> [ok |-> TRUE, val |-> Num(5)]
      [] value = " 5 " -> [ok |-> TRUE, val |-> Num(5)]
      [] value = "-1"  -> [ok |-> TRUE, val |-> Num(-1)]
      [] value = "nan" -> [ok |-> TRUE, val |-> NaN]
      [] OTHER         -> [ok |-> FALSE, val |-> NaN]

\* _validate_amount: the parsed amount, or ValueError (ok = FALSE).
_validate_amount(value) ==
    LET p == ParseFloat(value)
    IN  IF ~p.ok THEN [ok |-> FALSE, val |-> NaN]
        ELSE IF FLess(p.val, Num(0)) THEN [ok |-> FALSE, val |-> NaN]
        ELSE p

\* str(value).strip() on the strings used here.
Strip(s) ==
    CASE s = " "            -> ""
      [] s = "  "           -> ""
      [] s = " 2024-01-02 " -> "2024-01-02"
      [] s = " paid "       -> "paid"
      [] OTHER              -> s

\* str.lower() on the strings used here.
Lower(s) ==
    CASE s = "Pending"   -> "pending"
      [] s = "PAID"      -> "paid"
      [] s = "Cancelled" -> "cancelled"
      [] OTHER           -> s

\* _validate_date: datetime.strptime(str(value).strip(), "%Y-%m-%d").date(),
\* a date being the day number within January 2024; anything else raises.
_validate_date(value) ==
    LET s == Strip(value)
    IN  CASE s = "2024-01-01" -> [ok |-> TRUE, val |-> 1]
          [] s = "2024-01-02" -> [ok |-> TRUE, val |-> 2]
          [] OTHER            -> [ok |-> FALSE, val |-> 0]

\* `not str(x).strip()`
IsBlank(s) == Strip(s) = ""

-----------------------------------------------------------------------------
(* Audit log *)

\* _actor_email(): the session's user_email, "unknown" when the session has
\* none, "system" outside a request.
Actors == {"admin@benjo"}

AuditEntry(actor, action, entity_type, entity_id) ==
    [user_email |-> actor, action |-> action,
     entity_type |-> entity_type, entity_id |-> entity_id]

\* A log_audit that writes over the newest entry instead of adding one.
log_audit_overwriting(ok, actor, action, entity_type, entity_id) ==
    audit' = IF ~ok THEN audit
             ELSE IF audit = <<>>
             THEN <<AuditEntry(actor, action, entity_type, entity_id)>>
             ELSE [audit EXCEPT ![Len(audit)] =
                      AuditEntry(actor, action, entity_type, entity_id)]

\* A log_audit whose failed write takes the log with it.
log_audit_losing(ok, actor, action, entity_type, entity_id) ==
    audit' = IF ok THEN Append(audit, AuditEntry(actor, action, entity_type, entity_id))
             ELSE <<>>

\* log_audit: appends one entry; when the write fails (ok = FALSE) the
\* exception is swallowed and the log is left as it was.
log_audit(ok, actor, action, entity_type, entity_id) ==
    audit' = IF ok THEN Append(audit, AuditEntry(actor, action, entity_type, entity_id))
             ELSE audit

\* A call raises exc, or returns (exc = "none"; value is what it returned
\* when that is a string, "" otherwise).
Raise(exc) == ret' = [exc |-> exc, value |-> ""]

Return(value) == ret' = [exc |-> "none", value |-> value]

\* Every data-layer call starts at a later clock reading, up to the horizon.
Tick == now < horizon /\ now' = now + 1

\* datetime.utcnow() inside the call that is starting.
utcnow == now + 1

\* A Numeric NOT NULL column given nan: PostgreSQL stores NaN; SQLite binds
\* nan as NULL, which violates NOT NULL (IntegrityError).
StoresNaN == dialect = "postgresql"

NumericRejected(x) == x.nan /\ ~StoresNaN

-----------------------------------------------------------------------------
(* Income and expenses *)

LedgerRow(date, description, category, amount) ==
    [date |-> date, description |-> description, category |-> category,
     amount |-> amount, is_deleted |-> FALSE, deleted_at |-> NULL]

\* A soft delete that forgets the timestamp.
SoftDeleteNoStamp(row, t) == [row EXCEPT !.is_deleted = TRUE]

\* delete_*: row.is_deleted = True; row.deleted_at = datetime.utcnow()
SoftDelete(row, t) == [row EXCEPT !.is_deleted = TRUE, !.deleted_at = Some(t)]

\* A restore that leaves the timestamp behind.
RestoreKeepStamp(row) == [row EXCEPT !.is_deleted = FALSE]

\* restore_*: row.is_deleted = False; row.deleted_at = None
Restore(row) == [row EXCEPT !.is_deleted = FALSE, !.deleted_at = NULL]

add_income(ok, actor, date, description, category, amount) ==
    LET a == _validate_amount(amount)
        d == _validate_date(date)
    IN  /\ IF ~a.ok \/ ~d.ok \/ IsBlank(description) \/ IsBlank(category)
           THEN /\ Raise("ValueError")
                /\ UNCHANGED <<income, audit>>
           ELSE IF NumericRejected(a.val)
           THEN /\ Raise("IntegrityError")
                /\ UNCHANGED <<income, audit>>
           ELSE /\ income' = Append(income, LedgerRow(d.val, description, category, a.val))
                /\ log_audit(ok, actor, "create", "income", Len(income) + 1)
                /\ Return("")
        /\ Tick
        /\ UNCHANGED <<web, content, dialect, horizon, expenses, customers, invoices, gallery, calls>>

\* A delete_income that writes its audit entry whether or not it found a row.
delete_income_always_audited(ok, actor, income_id) ==
    /\ IF income_id \in DOMAIN income
       THEN income' = [income EXCEPT ![income_id] = SoftDelete(@, utcnow)]
       ELSE UNCHANGED income
    /\ log_audit(ok, actor, "delete", "income", income_id)
    /\ Return("")
    /\ Tick
    /\ UNCHANGED <<web, content, dialect, horizon, expenses, customers, invoices, gallery, calls>>

delete_income(ok, actor, income_id) ==
    /\ IF income_id \in DOMAIN income
       THEN /\ income' = [income EXCEPT ![income_id] = SoftDelete(@, utcnow)]
            /\ log_audit(ok, actor, "delete", "income", income_id)
       ELSE UNCHANGED <<income, audit>>
    /\ Return("")
    /\ Tick
    /\ UNCHANGED <<web, content, dialect, horizon, expenses, customers, invoices, gallery, calls>>

\* A restore_income that does not ask whether the row is soft-deleted.
restore_income_unconditional(ok, actor, income_id) ==
    /\ IF income_id \in DOMAIN income
       THEN /\ income' = [income EXCEPT ![income_id] = Restore(@)]
            /\ log_audit(ok, actor, "restore", "income", income_id)
       ELSE UNCHANGED <<income, audit>>
    /\ Return("")
    /\ Tick
    /\ UNCHANGED <<web, content, dialect, horizon, expenses, customers, invoices, gallery, calls>>

restore_income(ok, actor, income_id) ==
    /\ IF income_id \in DOMAIN income /\ income[income_id].is_deleted
       THEN /\ income' = [income EXCEPT ![income_id] = Restore(@)]
            /\ log_audit(ok, actor, "restore", "income", income_id)
       ELSE UNCHANGED <<income, audit>>
    /\ Return("")
    /\ Tick
    /\ UNCHANGED <<web, content, dialect, horizon, expenses, customers, invoices, gallery, calls>>

add_expense(ok, actor, date, description, category, amount) ==
    LET a == _validate_amount(amount)
        d == _validate_date(date)
    IN  /\ IF ~a.ok \/ ~d.ok \/ IsBlank(description) \/ IsBlank(category)
           THEN /\ Raise("ValueError")
                /\ UNCHANGED <<expenses, audit>>
           ELSE IF NumericRejected(a.val)
           THEN /\ Raise("IntegrityError")
                /\ UNCHANGED <<expenses, audit>>
           ELSE /\ expenses' = Append(expenses, LedgerRow(d.val, description, category, a.val))
                /\ log_audit(ok, actor, "create", "expense", Len(expenses) + 1)
                /\ Return("")
        /\ Tick
        /\ UNCHANGED <<web, content, dialect, horizon, income, customers, invoices, gallery, calls>>

delete_expense(ok, actor, expense_id) ==
    /\ IF expense_id \in DOMAIN expenses
       THEN /\ expenses' = [expenses EXCEPT ![expense_id] = SoftDelete(@, utcnow)]
            /\ log_audit(ok, actor, "delete", "expense", expense_id)
       ELSE UNCHANGED <<expenses, audit>>
    /\ Return("")
    /\ Tick
    /\ UNCHANGED <<web, content, dialect, horizon, income, customers, invoices, gallery, calls>>

restore_expense(ok, actor, expense_id) ==
    /\ IF expense_id \in DOMAIN expenses /\ expenses[expense_id].is_deleted
       THEN /\ expenses' = [expenses EXCEPT ![expense_id] = Restore(@)]
            /\ log_audit(ok, actor, "restore", "expense", expense_id)
       ELSE UNCHANGED <<expenses, audit>>
    /\ Return("")
    /\ Tick
    /\ UNCHANGED <<web, content, dialect, horizon, income, customers, invoices, gallery, calls>>

-----------------------------------------------------------------------------
(* Customers *)

CustomerRow(name, service, amount_paid, total_amount, contact) ==
    [name |-> name, service |-> service, amount_paid |-> amount_paid,
     total_amount |-> total_amount, contact |-> contact,
     is_deleted |-> FALSE, deleted_at |-> NULL]

\* `if amount_paid > total_amount: raise ValueError(...)`
Exceeds(amount_paid, total_amount) == FGreater(amount_paid, total_amount)

add_customer(ok, actor, name, service, amount_paid, total_amount, contact) ==
    LET t == _validate_amount(total_amount)
        a == _validate_amount(amount_paid)
    IN  /\ IF IsBlank(name) \/ IsBlank(service) \/ ~t.ok \/ ~a.ok
           THEN /\ Raise("ValueError")
                /\ UNCHANGED <<customers, audit>>
           ELSE IF Exceeds(a.val, t.val)
           THEN /\ Raise("ValueError")
                /\ UNCHANGED <<customers, audit>>
           ELSE IF NumericRejected(a.val) \/ NumericRejected(t.val)
           THEN /\ Raise("IntegrityError")
                /\ UNCHANGED <<customers, audit>>
           ELSE /\ customers' = Append(customers,
                                       CustomerRow(name, service, a.val, t.val, contact))
                /\ log_audit(ok, actor, "create", "customer", Len(customers) + 1)
                /\ Return("")
        /\ Tick
        /\ UNCHANGED <<web, content, dialect, horizon, income, expenses, invoices, gallery, calls>>

update_customer_payment(ok, actor, customer_id, amount_paid) ==
    LET a == _validate_amount(amount_paid)
    IN  /\ IF ~a.ok
           THEN /\ Raise("ValueError")
                /\ UNCHANGED <<customers, audit>>
           ELSE IF customer_id \notin DOMAIN customers
           THEN /\ Return("")
                /\ UNCHANGED <<customers, audit>>
           ELSE IF Exceeds(a.val, customers[customer_id].total_amount)
           THEN /\ Raise("ValueError")
                /\ UNCHANGED <<customers, audit>>
           ELSE IF NumericRejected(a.val)
           THEN /\ Raise("IntegrityError")
                /\ UNCHANGED <<customers, audit>>
           ELSE /\ customers' = [customers EXCEPT ![customer_id].amount_paid = a.val]
                /\ log_audit(ok, actor, "update", "customer", customer_id)
                /\ Return("")
        /\ Tick
        /\ UNCHANGED <<web, content, dialect, horizon, income, expenses, invoices, gallery, calls>>

\* The rows delete_customer soft-deletes next to the customer: none.
CascadeNone(customer_id) == {}

\* customer.invoices: the invoices whose customer_id is the customer's id,
\* soft-deleted ones included.
CustomerInvoices(customer_id) ==
    {i \in DOMAIN invoices : invoices[i].customer_id = customer_id}

delete_customer(ok, actor, customer_id) ==
    /\ IF customer_id \in DOMAIN customers
       THEN /\ invoices' = [i \in DOMAIN invoices |->
                               IF i \in CustomerInvoices(customer_id)
                               THEN SoftDelete(invoices[i], utcnow)
                               ELSE invoices[i]]
            /\ customers' = [customers EXCEPT ![customer_id] = SoftDelete(@, utcnow)]
            /\ log_audit(ok, actor, "delete", "customer", customer_id)
       ELSE UNCHANGED <<customers, invoices, audit>>
    /\ Return("")
    /\ Tick
    /\ UNCHANGED <<web, content, dialect, horizon, income, expenses, gallery, calls>>

\* A restore_customer that brings the customer's invoices back with it.
restore_customer_cascading(ok, actor, customer_id) ==
    /\ IF customer_id \in DOMAIN customers /\ customers[customer_id].is_deleted
       THEN /\ customers' = [customers EXCEPT ![customer_id] = Restore(@)]
            /\ invoices' = [i \in DOMAIN invoices |->
                               IF i \in CustomerInvoices(customer_id)
                               THEN Restore(invoices[i])
                               ELSE invoices[i]]
            /\ log_audit(ok, actor, "restore", "customer", customer_id)
       ELSE UNCHANGED <<customers, invoices, audit>>
    /\ Return("")
    /\ Tick
    /\ UNCHANGED <<web, content, dialect, horizon, income, expenses, gallery, calls>>

restore_customer(ok, actor, customer_id) ==
    /\ IF customer_id \in DOMAIN customers /\ customers[customer_id].is_deleted
       THEN /\ customers' = [customers EXCEPT ![customer_id] = Restore(@)]
            /\ log_audit(ok, actor, "restore", "customer", customer_id)
       ELSE UNCHANGED <<customers, audit>>
    /\ Return("")
    /\ Tick
    /\ UNCHANGED <<web, content, dialect, horizon, income, expenses, invoices, gallery, calls>>

-----------------------------------------------------------------------------
(* Invoices *)

\* Column default of Invoice.status.
DefaultStatus == "Pending"

\* _VALID_STATUSES of update_invoice_status.
ValidStatuses == {"pending", "paid", "cancelled"}

InvoiceRow(invoice_number, customer_id, date, amount) ==
    [invoice_number |-> invoice_number, customer_id |-> customer_id,
     date |-> date, amount |-> amount, status |-> DefaultStatus,
     is_deleted |-> FALSE, deleted_at |-> NULL]

\* The values of f"INV-{today}-{secrets.token_hex(2).upper()}" that the
\* random suffix can take.
GenSpace == {"INV-A", "INV-B"}

\* The invoice_number column over all rows, soft-deleted rows included.
InvoiceNumbers == {invoices[i].invoice_number : i \in DOMAIN invoices}

\* A lookup that leaves soft-deleted invoices out.
NumberExistsAmongLive(candidate) ==
    \E i \in DOMAIN invoices :
        ~invoices[i].is_deleted /\ invoices[i].invoice_number = candidate

\* select(Invoice).where(Invoice.invoice_number == candidate) finds a row.
NumberExists(candidate) == candidate \in InvoiceNumbers

\* What the loop of _gen_invoice_number can produce with k candidates left
\* to draw: a drawn candidate that no row has, or, when every draw hits an
\* existing number, RuntimeError.
RECURSIVE GenOutcomes(_)
GenOutcomes(k) ==
    IF k = 0
    THEN {[exc |-> "RuntimeError", num |-> ""]}
    ELSE {[exc |-> "none", num |-> c] : c \in {g \in GenSpace : ~NumberExists(g)}}
         \cup (IF \E g \in GenSpace : NumberExists(g) THEN GenOutcomes(k - 1) ELSE {})

_gen_invoice_number == GenOutcomes(GenAttempts)

\* A database without the unique constraint on invoice_number.
UniqueNotEnforced(num) == FALSE

\* unique=True on Invoice.invoice_number.
UniqueViolation(num) == num \in InvoiceNumbers

\* ForeignKey("customers.id"), nullable=False on Invoice.customer_id: the
\* insert fails unless a customer row (soft-deleted or not) has that id.
\* Foreign keys are enforced on both backends (PRAGMA foreign_keys=ON).
ForeignKeyViolation(customer_id) == customer_id \notin DOMAIN customers

\* session.commit() of the new invoice raises IntegrityError.
InsertConflicts(call) ==
    \/ UniqueViolation(call.num)
    \/ ForeignKeyViolation(call.customer_id)
    \/ NumericRejected(call.amount)

\* An `if invoice_number:` that never holds: every conflict is retried.
TruthyNever(invoice_number) == FALSE

\* `if invoice_number:` on the argument as the caller passed it ("" stands
\* for None and for the empty string, which behave alike).
Truthy(invoice_number) == invoice_number # ""

\* A loop that never runs out of passes.
LoopUnbounded(attempt) == FALSE

\* `for _ in range(20)`: the pass that has just failed was the last one.
LoopExhausted(attempt) == attempt + 1 = MaxAttempts

Idle ==
    [pc |-> "idle", actor |-> "", invoice_number |-> "", customer_id |-> 0,
     date |-> 0, amount |-> Num(0), num |-> "", attempt |-> 0]

\* add_invoice up to its first session.commit(): validation, then the first
\* pass through `num = (invoice_number or "").strip() or _gen_invoice_number(session)`.
add_invoice_begin(p, actor, invoice_number, customer_id, date, amount) ==
    LET a == _validate_amount(amount)
        d == _validate_date(date)
        started(num) ==
            [pc |-> "commit", actor |-> actor, invoice_number |-> invoice_number,
             customer_id |-> customer_id, date |-> d.val, amount |-> a.val,
             num |-> num, attempt |-> 0]
    IN  /\ calls[p].pc = "idle"
        /\ IF ~a.ok \/ ~d.ok
           THEN /\ Raise("ValueError")
                /\ UNCHANGED calls
           ELSE IF Strip(invoice_number) # ""
           THEN /\ calls' = [calls EXCEPT ![p] = started(Strip(invoice_number))]
                /\ UNCHANGED ret
           ELSE \E g \in _gen_invoice_number :
                   IF g.exc = "RuntimeError"
                   THEN /\ Raise("RuntimeError")
                        /\ UNCHANGED calls
                   ELSE /\ calls' = [calls EXCEPT ![p] = started(g.num)]
                        /\ UNCHANGED ret
        /\ Tick
        /\ UNCHANGED <<web, content, dialect, horizon, income, expenses, customers, invoices, gallery, audit>>

\* One session.commit() of add_invoice and what follows it: the audit entry
\* and the return, or the rollback and either the raise or the next pass
\* through the loop up to its commit.
add_invoice_commit(p, ok) ==
    LET c == calls[p]
    IN  /\ c.pc = "commit"
        /\ IF ~InsertConflicts(c)
           THEN /\ invoices' = Append(invoices,
                                      InvoiceRow(c.num, c.customer_id, c.date, c.amount))
                /\ log_audit(ok, c.actor, "create", "invoice", Len(invoices) + 1)
                /\ Return(c.num)
                /\ calls' = [calls EXCEPT ![p] = Idle]
           ELSE /\ UNCHANGED <<invoices, audit>>
                /\ IF Truthy(c.invoice_number)
                   THEN /\ Raise("ValueError")
                        /\ calls' = [calls EXCEPT ![p] = Idle]
                   ELSE IF LoopExhausted(c.attempt)
                   THEN /\ Raise("RuntimeError")
                        /\ calls' = [calls EXCEPT ![p] = Idle]
                   ELSE \E g \in _gen_invoice_number :
                           IF g.exc = "RuntimeError"
                           THEN /\ Raise("RuntimeError")
                                /\ calls' = [calls EXCEPT ![p] = Idle]
                           ELSE /\ calls' = [calls EXCEPT ![p].num = g.num,
                                                          ![p].attempt = c.attempt + 1]
                                /\ UNCHANGED ret
        /\ UNCHANGED <<web, content, dialect, horizon, now, income, expenses, customers, gallery>>

update_invoice_status(ok, actor, invoice_id, status) ==
    LET st == Lower(Strip(status))
    IN  /\ IF st \notin ValidStatuses
           THEN /\ Raise("ValueError")
                /\ UNCHANGED <<invoices, audit>>
           ELSE /\ IF invoice_id \in DOMAIN invoices
                   THEN /\ invoices' = [invoices EXCEPT ![invoice_id].status = st]
                        /\ log_audit(ok, actor, "update", "invoice", invoice_id)
                   ELSE UNCHANGED <<invoices, audit>>
                /\ Return("")
        /\ Tick
        /\ UNCHANGED <<web, content, dialect, horizon, income, expenses, customers, gallery, calls>>

delete_invoice(ok, actor, invoice_id) ==
    /\ IF invoice_id \in DOMAIN invoices
       THEN /\ invoices' = [invoices EXCEPT ![invoice_id] = SoftDelete(@, utcnow)]
            /\ log_audit(ok, actor, "delete", "invoice", invoice_id)
       ELSE UNCHANGED <<invoices, audit>>
    /\ Return("")
    /\ Tick
    /\ UNCHANGED <<web, content, dialect, horizon, income, expenses, customers, gallery, calls>>

restore_invoice(ok, actor, invoice_id) ==
    /\ IF invoice_id \in DOMAIN invoices /\ invoices[invoice_id].is_deleted
       THEN /\ invoices' = [invoices EXCEPT ![invoice_id] = Restore(@)]
            /\ log_audit(ok, actor, "restore", "invoice", invoice_id)
       ELSE UNCHANGED <<invoices, audit>>
    /\ Return("")
    /\ Tick
    /\ UNCHANGED <<web, content, dialect, horizon, income, expenses, customers, gallery, calls>>

-----------------------------------------------------------------------------
(* Gallery *)

GalleryRow(filename, album, caption) ==
    [filename |-> filename, album |-> album, caption |-> caption,
     published |-> TRUE, is_deleted |-> FALSE, deleted_at |-> NULL]

add_gallery_image(ok, actor, filename, album, caption) ==
    /\ gallery' = Append(gallery, GalleryRow(filename, album, caption))
    /\ log_audit(ok, actor, "create", "gallery", Len(gallery) + 1)
    /\ Return("")
    /\ Tick
    /\ UNCHANGED <<web, content, dialect, horizon, income, expenses, customers, invoices, calls>>

toggle_gallery_publish(ok, actor, image_id) ==
    /\ IF image_id \in DOMAIN gallery
       THEN /\ gallery' = [gallery EXCEPT ![image_id].published = ~@]
            /\ log_audit(ok, actor, "toggle_publish", "gallery", image_id)
       ELSE UNCHANGED <<gallery, audit>>
    /\ Return("")
    /\ Tick
    /\ UNCHANGED <<web, content, dialect, horizon, income, expenses, customers, invoices, calls>>

\* toggle_gallery_publish in a request session of its own, up to
\* session.commit(): session.get reads the row and the session's copy of it
\* gets the negated flag; nothing has reached the database yet.
toggle_gallery_publish_begin(p, actor, image_id) ==
    /\ calls[p].pc = "idle"
    /\ IF image_id \in DOMAIN gallery
       THEN /\ calls' = [calls EXCEPT ![p] =
                            [pc |-> "toggle_publish", actor |-> actor, id |-> image_id,
                             new_state |-> ~gallery[image_id].published]]
            /\ UNCHANGED ret
       ELSE /\ Return("")
            /\ UNCHANGED calls
    /\ Tick
    /\ UNCHANGED <<web, content, dialect, horizon, tables, audit>>

\* session.commit() of toggle_gallery_publish and what follows it: the UPDATE
\* writes the flag the session holds, then the audit entry and the return.
toggle_gallery_publish_commit(p, ok) ==
    LET c == calls[p]
    IN  /\ c.pc = "toggle_publish"
        /\ gallery' = [gallery EXCEPT ![c.id].published = c.new_state]
        /\ log_audit(ok, c.actor, "toggle_publish", "gallery", c.id)
        /\ Return("")
        /\ calls' = [calls EXCEPT ![p] = Idle]
        /\ UNCHANGED <<web, content, dialect, horizon, now, income, expenses, customers,
                       invoices>>

\* Returns the row's filename (with its album) for the caller, None when
\* there is no such row.
delete_gallery_image(ok, actor, image_id) ==
    /\ IF image_id \in DOMAIN gallery
       THEN /\ gallery' = [gallery EXCEPT ![image_id] = SoftDelete(@, utcnow)]
            /\ log_audit(ok, actor, "delete", "gallery", image_id)
            /\ Return(gallery[image_id].filename)
       ELSE /\ UNCHANGED <<gallery, audit>>
            /\ Return("")
    /\ Tick
    /\ UNCHANGED <<web, content, dialect, horizon, income, expenses, customers, invoices, calls>>

restore_gallery_image(ok, actor, image_id) ==
    /\ IF image_id \in DOMAIN gallery /\ gallery[image_id].is_deleted
       THEN /\ gallery' = [gallery EXCEPT ![image_id] = Restore(@)]
            /\ log_audit(ok, actor, "restore", "gallery", image_id)
       ELSE UNCHANGED <<gallery, audit>>
    /\ Return("")
    /\ Tick
    /\ UNCHANGED <<web, content, dialect, horizon, income, expenses, customers, invoices, calls>>

-----------------------------------------------------------------------------
(* Listings and totals *)

\* A listing that forgets the soft-delete filter.
NotDeletedUnfiltered(row) == TRUE

\* `.where(X.is_deleted == False)`
NotDeleted(row) == row.is_deleted = FALSE

\* The ids of the rows of a table that a predicate selects.
LiveIds(table) == {i \in DOMAIN table : NotDeleted(table[i])}

\* What `ORDER BY date DESC LIMIT n` can return for the rows `ids` of a
\* table: the n rows of latest date, latest first; rows of equal date come
\* in an order SQL leaves open.
OrderByDateDescLimit(table, ids, n) ==
    LET m == IF Cardinality(ids) < n THEN Cardinality(ids) ELSE n
    IN  {s \in [1..m -> ids] :
            /\ \A i, j \in 1..m : i # j => s[i] # s[j]
            /\ \A i, j \in 1..m : i < j => table[s[i]].date >= table[s[j]].date
            /\ \A i \in 1..m : \A k \in ids :
                  (\A j \in 1..m : s[j] # k) => table[k].date <= table[s[i]].date}

get_all_income == OrderByDateDescLimit(income, LiveIds(income), Len(income))

get_all_expenses == OrderByDateDescLimit(expenses, LiveIds(expenses), Len(expenses))

\* Income.date.between(start_date, end_date)
Between(d, start_date, end_date) == start_date <= d /\ d <= end_date

get_income_by_date_range(start_date, end_date) ==
    LET ids == {i \in LiveIds(income) : Between(income[i].date, start_date, end_date)}
    IN  OrderByDateDescLimit(income, ids, Len(income))

get_expenses_by_date_range(start_date, end_date) ==
    LET ids == {i \in LiveIds(expenses) : Between(expenses[i].date, start_date, end_date)}
    IN  OrderByDateDescLimit(expenses, ids, Len(expenses))

\* The rows get_all_customers returns (as a set of ids).
get_all_customers == LiveIds(customers)

\* The row get_customer returns: NULL or the id.
get_customer(customer_id) ==
    IF customer_id \in LiveIds(customers) THEN Some(customer_id) ELSE NULL

\* The rows get_all_invoices returns: live invoices joined to their customer.
get_all_invoices ==
    {i \in LiveIds(invoices) : invoices[i].customer_id \in DOMAIN customers}

get_all_gallery_images == LiveIds(gallery)

\* album = "" stands for `album=None`, the listing over every album.
get_published_gallery_images(album) ==
    {i \in LiveIds(gallery) :
        /\ gallery[i].published
        /\ (album # "" => gallery[i].album = album)}

\* list.sort(key=date, reverse=True): a stable sort, latest first.
RECURSIVE InsertDesc(_, _)
InsertDesc(sorted, x) ==
    IF sorted = <<>> THEN <<x>>
    ELSE IF Head(sorted).date >= x.date
         THEN <<Head(sorted)>> \o InsertDesc(Tail(sorted), x)
         ELSE <<x>> \o sorted

\* A merge that leaves the concatenated lists in the order they came in.
KeepOrder(xs) == xs

RECURSIVE SortDesc(_)
SortDesc(xs) ==
    IF xs = <<>> THEN <<>>
    ELSE InsertDesc(SortDesc(SubSeq(xs, 1, Len(xs) - 1)), xs[Len(xs)])

\* transactions[:limit]
Take(xs, n) == SubSeq(xs, 1, IF Len(xs) < n THEN Len(xs) ELSE n)

\* The lists get_recent_transactions(limit) can return.
get_recent_transactions(limit) ==
    LET tag(type, table, s) ==
            [k \in DOMAIN s |-> [type |-> type, id |-> s[k], date |-> table[s[k]].date]]
    IN  {Take(SortDesc(tag("income", income, a) \o tag("expense", expenses, b)), limit) :
            a \in OrderByDateDescLimit(income, LiveIds(income), limit),
            b \in OrderByDateDescLimit(expenses, LiveIds(expenses), limit)}

\* SQL sum() over the selected rows: NULL over no row.
RECURSIVE SqlSum(_)
SqlSum(vals) ==
    IF vals = <<>> THEN NULL
    ELSE LET rest == SqlSum(Tail(vals))
         IN  IF rest = NULL THEN Some(Head(vals))
             ELSE Some(FAdd(Head(vals), CHOOSE r \in rest : TRUE))

\* A total without func.coalesce(..., 0): NULL comes back as it is.
CoalesceMissing(x, default) == IF x = NULL THEN NaN ELSE CHOOSE v \in x : TRUE

\* func.coalesce(x, default)
Coalesce(x, default) == IF x = NULL THEN default ELSE CHOOSE v \in x : TRUE

\* The amounts of the rows a total sums.
Selected(table) == SelectSeq(table, NotDeleted)

get_total_income ==
    LET rows == Selected(income)
    IN  Coalesce(SqlSum([k \in DOMAIN rows |-> rows[k].amount]), Num(0))

get_total_expenses ==
    LET rows == Selected(expenses)
    IN  Coalesce(SqlSum([k \in DOMAIN rows |-> rows[k].amount]), Num(0))

get_total_pending_balance ==
    LET rows == Selected(customers)
    IN  Coalesce(SqlSum([k \in DOMAIN rows |->
                            FSub(rows[k].total_amount, rows[k].amount_paid)]), Num(0))

-----------------------------------------------------------------------------
(* Assets, contact messages, pricing packages, hero images: hard delete *)

\* What session.delete(row) leaves of a row: its id stays used (the
\* autoincrement key is not handed out again), the row is gone.
Removed == [removed |-> TRUE]

\* session.get(X, id) finds a row.
Present(table, id) == id \in DOMAIN table /\ ~table[id].removed

\* session.delete(row); session.commit()
HardDelete(table, id) == [table EXCEPT ![id] = Removed]

AssetRow(name, category, value, supplier) ==
    [removed |-> FALSE, name |-> name, category |-> category, value |-> value,
     supplier |-> supplier]

add_asset(ok, actor, name, category, value, supplier) ==
    LET v == _validate_amount(value)
    IN  /\ IF IsBlank(name)
           THEN /\ Raise("ValueError")
                /\ UNCHANGED <<assets, audit>>
           ELSE IF ~v.ok
           THEN /\ Raise("ValueError")
                /\ UNCHANGED <<assets, audit>>
           ELSE IF NumericRejected(v.val)
           THEN /\ Raise("IntegrityError")
                /\ UNCHANGED <<assets, audit>>
           ELSE /\ assets' = Append(assets, AssetRow(name, category, v.val, supplier))
                /\ log_audit(ok, actor, "create", "asset", Len(assets) + 1)
                /\ Return("")
        /\ Tick
        /\ UNCHANGED <<web, users, settings, pricing, messages, hero, dialect, horizon,
                       income, expenses, customers, invoices, gallery, calls>>

delete_asset(ok, actor, asset_id) ==
    /\ IF Present(assets, asset_id)
       THEN /\ assets' = HardDelete(assets, asset_id)
            /\ log_audit(ok, actor, "delete", "asset", asset_id)
       ELSE UNCHANGED <<assets, audit>>
    /\ Return("")
    /\ Tick
    /\ UNCHANGED <<web, users, settings, pricing, messages, hero, dialect, horizon,
                   income, expenses, customers, invoices, gallery, calls>>

MessageRow(name, email, message) ==
    [removed |-> FALSE, name |-> name, email |-> email, message |-> message,
     is_read |-> FALSE]

\* No argument is validated here; the contact routes validate the form.
add_contact_message(ok, actor, name, email, phone, service, message) ==
    /\ messages' = Append(messages, MessageRow(name, email, message))
    /\ log_audit(ok, actor, "create", "contact_message", Len(messages) + 1)
    /\ Return("")
    /\ Tick
    /\ UNCHANGED <<web, users, settings, pricing, assets, hero, dialect, horizon,
                   income, expenses, customers, invoices, gallery, calls>>

mark_message_read(ok, actor, message_id) ==
    /\ IF Present(messages, message_id)
       THEN /\ messages' = [messages EXCEPT ![message_id].is_read = TRUE]
            /\ log_audit(ok, actor, "update", "contact_message", message_id)
       ELSE UNCHANGED <<messages, audit>>
    /\ Return("")
    /\ Tick
    /\ UNCHANGED <<web, users, settings, pricing, assets, hero, dialect, horizon,
                   income, expenses, customers, invoices, gallery, calls>>

delete_message(ok, actor, message_id) ==
    /\ IF Present(messages, message_id)
       THEN /\ messages' = HardDelete(messages, message_id)
            /\ log_audit(ok, actor, "delete", "contact_message", message_id)
       ELSE UNCHANGED <<messages, audit>>
    /\ Return("")
    /\ Tick
    /\ UNCHANGED <<web, users, settings, pricing, assets, hero, dialect, horizon,
                   income, expenses, customers, invoices, gallery, calls>>

PackageRow(name, price, is_featured, display_order) ==
    [removed |-> FALSE, name |-> name, price |-> price, is_featured |-> is_featured,
     display_order |-> display_order, is_active |-> TRUE]

\* No argument is validated here; the pricing routes validate the form.
add_pricing_package(ok, actor, name, price, is_featured, display_order) ==
    /\ pricing' = Append(pricing, PackageRow(name, price, is_featured, display_order))
    /\ log_audit(ok, actor, "create", "pricing_package", Len(pricing) + 1)
    /\ Return("")
    /\ Tick
    /\ UNCHANGED <<web, users, settings, assets, messages, hero, dialect, horizon,
                   income, expenses, customers, invoices, gallery, calls>>

update_pricing_package(ok, actor, package_id, name, price, is_featured, display_order) ==
    /\ IF Present(pricing, package_id)
       THEN /\ pricing' = [pricing EXCEPT ![package_id].name = name,
                                          ![package_id].price = price,
                                          ![package_id].is_featured = is_featured,
                                          ![package_id].display_order = display_order]
            /\ log_audit(ok, actor, "update", "pricing_package", package_id)
       ELSE UNCHANGED <<pricing, audit>>
    /\ Return("")
    /\ Tick
    /\ UNCHANGED <<web, users, settings, assets, messages, hero, dialect, horizon,
                   income, expenses, customers, invoices, gallery, calls>>

delete_pricing_package(ok, actor, package_id) ==
    /\ IF Present(pricing, package_id)
       THEN /\ pricing' = HardDelete(pricing, package_id)
            /\ log_audit(ok, actor, "delete", "pricing_package", package_id)
       ELSE UNCHANGED <<pricing, audit>>
    /\ Return("")
    /\ Tick
    /\ UNCHANGED <<web, users, settings, assets, messages, hero, dialect, horizon,
                   income, expenses, customers, invoices, gallery, calls>>

toggle_pricing_package(ok, actor, package_id) ==
    /\ IF Present(pricing, package_id)
       THEN /\ pricing' = [pricing EXCEPT ![package_id].is_active = ~@]
            /\ log_audit(ok, actor, "toggle_active", "pricing_package", package_id)
       ELSE UNCHANGED <<pricing, audit>>
    /\ Return("")
    /\ Tick
    /\ UNCHANGED <<web, users, settings, assets, messages, hero, dialect, horizon,
                   income, expenses, customers, invoices, gallery, calls>>

\* toggle_pricing_package in a request session of its own, up to
\* session.commit().
toggle_pricing_package_begin(p, actor, package_id) ==
    /\ calls[p].pc = "idle"
    /\ IF Present(pricing, package_id)
       THEN /\ calls' = [calls EXCEPT ![p] =
                            [pc |-> "toggle_active", actor |-> actor, id |-> package_id,
                             new_state |-> ~pricing[package_id].is_active]]
            /\ UNCHANGED ret
       ELSE /\ Return("")
            /\ UNCHANGED calls
    /\ Tick
    /\ UNCHANGED <<web, content, dialect, horizon, tables, audit>>

\* session.commit() of toggle_pricing_package and what follows it.  The
\* UPDATE of a row that was deleted in the meantime matches nothing and the
\* commit raises StaleDataError.
toggle_pricing_package_commit(p, ok) ==
    LET c == calls[p]
    IN  /\ c.pc = "toggle_active"
        /\ IF Present(pricing, c.id)
           THEN /\ pricing' = [pricing EXCEPT ![c.id].is_active = c.new_state]
                /\ log_audit(ok, c.actor, "toggle_active", "pricing_package", c.id)
                /\ Return("")
           ELSE /\ Raise("StaleDataError")
                /\ UNCHANGED <<pricing, audit>>
        /\ calls' = [calls EXCEPT ![p] = Idle]
        /\ UNCHANGED <<web, users, settings, assets, messages, hero, dialect, horizon,
                       now, tables>>

HeroRow(filename, display_order) ==
    [removed |-> FALSE, filename |-> filename, display_order |-> display_order]

add_hero_image(ok, actor, filename, display_order) ==
    /\ hero' = Append(hero, HeroRow(filename, display_order))
    /\ log_audit(ok, actor, "create", "hero_image", Len(hero) + 1)
    /\ Return("")
    /\ Tick
    /\ UNCHANGED <<web, users, settings, pricing, assets, messages, dialect, horizon,
                   income, expenses, customers, invoices, gallery, calls>>

\* Returns the row's filename; None ("" here) when there is no such row.
delete_hero_image(ok, actor, image_id) ==
    /\ IF Present(hero, image_id)
       THEN /\ hero' = HardDelete(hero, image_id)
            /\ log_audit(ok, actor, "delete", "hero_image", image_id)
            /\ Return(hero[image_id].filename)
       ELSE /\ UNCHANGED <<hero, audit>>
            /\ Return("")
    /\ Tick
    /\ UNCHANGED <<web, users, settings, pricing, assets, messages, dialect, horizon,
                   income, expenses, customers, invoices, gallery, calls>>

-----------------------------------------------------------------------------
(* Website settings, users and the seeding at application start *)

SettingsRow(site_name, t) == [site_name |-> site_name, updated_at |-> t]

\* werkzeug.security: a hash verifies against the password it was made from.
generate_password_hash(password) == <<"hash", password>>

check_password_hash(pwhash, password) == pwhash = generate_password_hash(password)

UserRow(name, email, password) ==
    [name |-> name, email |-> email,
     password_hash |-> generate_password_hash(password), role |-> "admin"]

\* select(func.count()).select_from(X) on a table rows are deleted from.
CountRows(table) == Cardinality({i \in DOMAIN table : ~table[i].removed})

\* A worker process that has not been started.
Down == [pc |-> "down"]

\* The position of a worker inside create_app.
Booting(pc, again) == [pc |-> pc, again |-> again]

\* A worker process is started: wsgi.py calls create_app, which goes on to
\* the seeding.
create_app(p) ==
    /\ calls[p].pc = "down"
    /\ calls' = [calls EXCEPT ![p] = Booting("init_default_settings", FALSE)]
    /\ Tick
    /\ UNCHANGED <<web, content, dialect, horizon, tables, audit, ret>>

\* A worker that serves requests is restarted and runs create_app again.
restart(p) ==
    /\ calls[p].pc = "idle"
    /\ calls' = [calls EXCEPT ![p] = Booting("init_default_settings", TRUE)]
    /\ Tick
    /\ UNCHANGED <<web, content, dialect, horizon, tables, audit, ret>>

\* init_default_settings up to `if exists == 0`.
init_default_settings_begin(p) ==
    /\ calls[p].pc = "init_default_settings"
    /\ calls' = [calls EXCEPT ![p].pc =
                    IF Len(settings) = 0 THEN "init_default_settings_commit"
                    ELSE "create_default_pricing_packages"]
    /\ UNCHANGED <<web, content, dialect, horizon, now, tables, audit, ret>>

\* session.add(WebsiteSettings(...)); session.commit()
init_default_settings_commit(p) ==
    /\ calls[p].pc = "init_default_settings_commit"
    /\ settings' = Append(settings, SettingsRow("Benjo Moments", now))
    /\ calls' = [calls EXCEPT ![p].pc = "create_default_pricing_packages"]
    /\ UNCHANGED <<web, users, pricing, assets, messages, hero, dialect, horizon, now,
                   tables, audit, ret>>

\* The three packages create_default_pricing_packages adds.
DefaultPackages ==
    <<PackageRow("Basic", 300000, FALSE, 1), PackageRow("Premium", 1500000, TRUE, 2),
      PackageRow("Full Package", 2500000, FALSE, 3)>>

\* create_default_pricing_packages, then `if not config.TEST_AUTH_MODE:`.
create_default_pricing_packages(p) ==
    /\ calls[p].pc = "create_default_pricing_packages"
    /\ pricing' = IF CountRows(pricing) = 0 THEN pricing \o DefaultPackages ELSE pricing
    /\ calls' = [calls EXCEPT ![p] = IF config.TEST_AUTH_MODE THEN Idle
                                     ELSE Booting("create_default_admin", @.again)]
    /\ UNCHANGED <<web, users, settings, assets, messages, hero, dialect, horizon, now,
                   tables, audit, ret>>

\* create_default_admin; the worker then serves requests.
create_default_admin(p) ==
    /\ calls[p].pc = "create_default_admin"
    /\ users' = IF config.DEFAULT_ADMIN_PASSWORD # NULL /\ Len(users) = 0
                THEN Append(users, UserRow("Admin User", "admin@benjomoments.com",
                                           CHOOSE pw \in config.DEFAULT_ADMIN_PASSWORD : TRUE))
                ELSE users
    /\ calls' = [calls EXCEPT ![p] = Idle]
    /\ UNCHANGED <<web, settings, pricing, assets, messages, hero, dialect, horizon, now,
                   tables, audit, ret>>

\* The local variables of update_website_settings between its select and
\* its commit: row = 0 stands for `row is None`.
UpdatingSettings(actor, site_name, row) ==
    [pc |-> "update_website_settings_commit", actor |-> actor,
     site_name |-> site_name, row |-> row]

\* update_website_settings up to `if row:`; select(...).limit(1) gives some
\* row of the table when there is one.
update_website_settings_begin(p, actor, site_name) ==
    /\ calls[p].pc = "idle"
    /\ \E row \in (IF Len(settings) = 0 THEN {0} ELSE DOMAIN settings) :
          calls' = [calls EXCEPT ![p] = UpdatingSettings(actor, site_name, row)]
    /\ Tick
    /\ UNCHANGED <<web, content, dialect, horizon, tables, audit, ret>>

\* The rest of update_website_settings: the row is changed, or a new row is
\* added; commit; audit entry.
update_website_settings_commit(p, ok) ==
    LET c == calls[p]
    IN  /\ c.pc = "update_website_settings_commit"
        /\ IF c.row = 0
           THEN /\ settings' = Append(settings, SettingsRow(c.site_name, now))
                /\ log_audit(ok, c.actor, "update", "website_settings", Len(settings) + 1)
           ELSE /\ settings' = [settings EXCEPT ![c.row] = SettingsRow(c.site_name, now)]
                /\ log_audit(ok, c.actor, "update", "website_settings", c.row)
        /\ Return("")
        /\ calls' = [calls EXCEPT ![p] = Idle]
        /\ UNCHANGED <<web, users, pricing, assets, messages, hero, dialect, horizon, now,
                       tables>>

\* get_website_settings: the row select(...).limit(1) gives, None (NULL) when
\* the table is empty.
get_website_settings ==
    IF Len(settings) = 0 THEN {NULL} ELSE {Some(i) : i \in DOMAIN settings}

\* get_user_by_email: the id of the user with that email, or NULL.
get_user_by_email(email) ==
    IF \E u \in DOMAIN users : users[u].email = email
    THEN Some(CHOOSE u \in DOMAIN users : users[u].email = email)
    ELSE NULL

-----------------------------------------------------------------------------
(* Sessions, CSRF check and authentication (app.py, auth.py, admin.py, public.py) *)

\* The configuration of a fresh checkout: config.py defaults.
DefaultConfig ==
    [TEST_AUTH_MODE |-> TRUE, TEST_PIN |-> NULL, DEFAULT_ADMIN_PASSWORD |-> Some("admin123")]

\* The browsers (cookie jars) that talk to the application: the session is
\* kept in the browser's cookie, so one browser is one session.
Browsers == {"b1"}

\* A session without any key: a new cookie, and what session.clear() leaves.
Anonymous == [user_id |-> NULL, user_email |-> NULL, _csrf_token |-> NULL]

\* secrets.token_urlsafe(32): a value no session holds at the moment.
Tokens == {"tok1", "tok2"}

FreshTokens == Tokens \ UNION {sessions[b]._csrf_token : b \in Browsers}

\* What a request may carry as csrf_token form field or X-CSRF-Token header:
\* nothing (""), a token, or a string with a character outside ASCII.
RequestTokens == Tokens \cup {"", "t\\u00f6k"}

IsAscii(s) == s # "t\\u00f6k"

\* What a request was answered with: the status, the endpoint a redirect
\* points to, whether the view function ran, and the category of the
\* message the request flashed ("" when it flashed none).
Response(b, endpoint, method, status, location, ran, flash) ==
    [browser |-> b, endpoint |-> endpoint, method |-> method, status |-> status,
     location |-> location, ran |-> ran, flash |-> flash]

\* No request has been served yet.
NoResponse == Response("", "", "", 0, "", FALSE, "")

\* The view functions behind @login_required and their methods.
AdminPages ==
    {"admin.dashboard", "admin.income", "admin.expenses", "admin.customers",
     "admin.invoices", "admin.assets", "admin.reports", "admin.gallery_manager",
     "admin.website_settings", "admin.messages", "admin.pricing",
     "admin.add_pricing", "admin.edit_pricing"}

AdminPosts ==
    {"admin.add_income", "admin.delete_income", "admin.add_expense",
     "admin.delete_expense", "admin.add_customer", "admin.delete_customer",
     "admin.add_invoice", "admin.mark_invoice_paid", "admin.delete_invoice",
     "admin.add_asset", "admin.delete_asset", "admin.upload_image",
     "admin.toggle_image", "admin.delete_image", "admin.update_settings",
     "admin.upload_hero_image", "admin.delete_hero_image",
     "admin.mark_message_read", "admin.delete_message", "admin.add_pricing",
     "admin.edit_pricing", "admin.delete_pricing", "admin.toggle_pricing"}

\* Every endpoint wrapped in login_required: the admin blueprint and logout.
Protected == AdminPages \cup AdminPosts \cup {"auth.logout"}

\* The endpoints that take form submissions without a login.
PublicPosts == {"auth.login", "public.contact", "public.submit_contact"}

Endpoints == Protected \cup PublicPosts

\* methods= of the route decorators.
Allowed(endpoint) ==
    (IF endpoint \in AdminPages \cup {"auth.login", "public.contact"} THEN {"GET"} ELSE {})
    \cup (IF endpoint \in AdminPosts \cup PublicPosts \cup {"auth.logout"}
          THEN {"POST"} ELSE {})

\* request.method in ("POST", "PUT", "PATCH", "DELETE")
Unsafe == {"POST", "PUT", "PATCH", "DELETE"}

\* hmac.compare_digest on two str: TypeError unless both are ASCII.
compare_digest(a, b) ==
    IF IsAscii(a) /\ IsAscii(b) THEN [exc |-> "none", value |-> a = b]
    ELSE [exc |-> "TypeError", value |-> FALSE]

\* protect_against_csrf: "pass" (the hook returns None), "abort" (abort(400))
\* or "TypeError" (compare_digest raises; Flask answers 500).
CsrfCheck(session, method, form, header) ==
    LET token == IF form # "" THEN form ELSE header
        session_token == session._csrf_token
    IN  IF method \notin Unsafe THEN "pass"
        ELSE IF session_token = NULL \/ token = "" THEN "abort"
        ELSE LET cmp == compare_digest(CHOOSE t \in session_token : TRUE, token)
             IN  IF cmp.exc # "none" THEN "TypeError"
                 ELSE IF ~cmp.value THEN "abort"
                 ELSE "pass"

\* generate_csrf_token, called by the page being rendered.
generate_csrf_token(session, fresh) ==
    IF session._csrf_token = NULL THEN [session EXCEPT !._csrf_token = Some(fresh)]
    ELSE session

\* A check that takes every session for a logged-in one.
LoggedInAlways(b) == b \in Browsers

\* `"user_id" in session`
LoggedIn(b) == sessions[b].user_id # NULL

\* _actor_email() inside the request of browser b.
_actor_email(b) ==
    IF sessions[b].user_email = NULL THEN "unknown"
    ELSE CHOOSE e \in sessions[b].user_email : TRUE

\* Everything a request leaves alone when its view function calls no
\* mutating data-layer function.
database == <<dialect, horizon, now, tables, audit, calls, ret, content>>

\* The before_request hook ends the request: 400 from abort, or 500 when
\* compare_digest raised.  No view function runs.
protect_against_csrf(b, endpoint, method, form, header) ==
    LET check == CsrfCheck(sessions[b], method, form, header)
    IN  /\ check # "pass"
        /\ resp' = Response(b, endpoint, method,
                            IF check = "abort" THEN 400 ELSE 500, "", FALSE, "")
        /\ UNCHANGED <<database, web>>

\* The request passed the hook and is routed; the method is none of the
\* route's methods: 405.
method_not_allowed(b, endpoint, method, form, header) ==
    /\ CsrfCheck(sessions[b], method, form, header) = "pass"
    /\ method \notin Allowed(endpoint)
    /\ resp' = Response(b, endpoint, method, 405, "", FALSE, "")
    /\ UNCHANGED <<database, web>>

\* The request of browser b reaches the view function of the endpoint.
Dispatched(b, endpoint, method, form, header) ==
    /\ CsrfCheck(sessions[b], method, form, header) = "pass"
    /\ method \in Allowed(endpoint)

\* login_required without "user_id" in the session: redirect to the login
\* page; the wrapped function is not called.
login_required(b, endpoint, method, form, header) ==
    /\ Dispatched(b, endpoint, method, form, header)
    /\ endpoint \in Protected
    /\ ~LoggedIn(b)
    /\ resp' = Response(b, endpoint, method, 302, "auth.login", FALSE, "warning")
    /\ UNCHANGED <<database, web>>

\* A test mode that never looks at TEST_PIN.
WrongPinIgnored(password) == password = "" /\ config.TEST_PIN = NULL

\* `config.TEST_PIN and password != config.TEST_PIN`
WrongPin(password) ==
    /\ config.TEST_PIN # NULL
    /\ config.TEST_PIN # Some("")
    /\ config.TEST_PIN # Some(password)

\* The session login() builds after session.clear().
LoginSession(user_id, email, fresh) ==
    [user_id |-> Some(user_id), user_email |-> Some(email), _csrf_token |-> Some(fresh)]

\* A login that forgets to replace the CSRF token after session.clear().
login_keeping_token(b, method, email_field, password, form, header) ==
    LET email == Strip(email_field)
        user == get_user_by_email(email)
        found == CHOOSE u \in user : TRUE
        accepted == /\ method = "POST" /\ email # "" /\ password # ""
                    /\ IF config.TEST_AUTH_MODE THEN ~WrongPin(password)
                       ELSE /\ user # NULL
                            /\ check_password_hash(users[found].password_hash, password)
    IN  /\ Dispatched(b, "auth.login", method, form, header)
        /\ \E fresh \in FreshTokens :
              IF LoggedIn(b)
              THEN /\ resp' = Response(b, "auth.login", method, 302, "admin.dashboard",
                                       TRUE, "")
                   /\ UNCHANGED sessions
              ELSE IF accepted
              THEN /\ sessions' = [sessions EXCEPT ![b] =
                          [user_id |-> Some(IF config.TEST_AUTH_MODE THEN 1 ELSE found),
                           user_email |-> Some(email),
                           _csrf_token |-> sessions[b]._csrf_token]]
                   /\ resp' = Response(b, "auth.login", method, 302, "admin.dashboard",
                                       TRUE, "success")
              ELSE /\ sessions' = [sessions EXCEPT ![b] = generate_csrf_token(@, fresh)]
                   /\ resp' = Response(b, "auth.login", method, 200, "", TRUE,
                                       IF method = "POST" THEN "error" ELSE "")
        /\ UNCHANGED <<database, config>>

\* auth.login, GET and POST.
login(b, method, email_field, password, form, header) ==
    LET email == Strip(email_field)
        user == get_user_by_email(email)
        found == CHOOSE u \in user : TRUE
    IN  /\ Dispatched(b, "auth.login", method, form, header)
        /\ \E fresh \in FreshTokens :
              IF LoggedIn(b)
              THEN /\ resp' = Response(b, "auth.login", method, 302, "admin.dashboard",
                                       TRUE, "")
                   /\ UNCHANGED sessions
              ELSE IF method = "POST" /\ email # "" /\ password # ""
                      /\ config.TEST_AUTH_MODE /\ ~WrongPin(password)
              THEN /\ sessions' = [sessions EXCEPT ![b] = LoginSession(1, email, fresh)]
                   /\ resp' = Response(b, "auth.login", method, 302, "admin.dashboard",
                                       TRUE, "success")
              ELSE IF method = "POST" /\ email # "" /\ password # ""
                      /\ ~config.TEST_AUTH_MODE /\ user # NULL
                      /\ check_password_hash(users[found].password_hash, password)
              THEN /\ sessions' = [sessions EXCEPT ![b] =
                                      LoginSession(found, users[found].email, fresh)]
                   /\ resp' = Response(b, "auth.login", method, 302, "admin.dashboard",
                                       TRUE, "success")
              ELSE /\ sessions' = [sessions EXCEPT ![b] = generate_csrf_token(@, fresh)]
                   /\ resp' = Response(b, "auth.login", method, 200, "", TRUE,
                                       IF method = "POST" THEN "error" ELSE "")
        /\ UNCHANGED <<database, config>>

\* A logout that answers like logout and forgets session.clear().
logout_keeping_session(b, form, header) ==
    /\ Dispatched(b, "auth.logout", "POST", form, header)
    /\ LoggedIn(b)
    /\ resp' = Response(b, "auth.logout", "POST", 302, "auth.login", TRUE, "info")
    /\ UNCHANGED <<database, web>>

\* auth.logout behind login_required.
logout(b, form, header) ==
    /\ Dispatched(b, "auth.logout", "POST", form, header)
    /\ LoggedIn(b)
    /\ sessions' = [sessions EXCEPT ![b] = Anonymous]
    /\ resp' = Response(b, "auth.logout", "POST", 302, "auth.login", TRUE, "info")
    /\ UNCHANGED <<database, config>>

\* A page of the admin blueprint behind login_required: the view reads the
\* tables and renders its template.
admin_page(b, endpoint) ==
    /\ endpoint \in AdminPages
    /\ LoggedIn(b)
    /\ \E fresh \in FreshTokens :
          sessions' = [sessions EXCEPT ![b] = generate_csrf_token(@, fresh)]
    /\ resp' = Response(b, endpoint, "GET", 200, "", TRUE, "")
    /\ UNCHANGED <<database, config>>

\* admin.valid_date: strptime on the string as typed.
valid_date(date_string) == date_string \in {"2024-01-01", "2024-01-02"}

\* admin.parse_positive_float: None (NULL) unless float(value) > 0.
parse_positive_float(value) ==
    LET p == ParseFloat(value)
    IN  IF p.ok /\ FGreater(p.val, Num(0)) THEN Some(p.val) ELSE NULL

\* admin.parse_non_negative_float: None (NULL) unless float(value) >= 0.
parse_non_negative_float(value) ==
    LET p == ParseFloat(value)
    IN  IF p.ok /\ ~p.val.nan /\ p.val.v >= 0 THEN Some(p.val) ELSE NULL

\* admin.add_income behind login_required.  The route has no try/except: an
\* exception of database.add_income would leave the view and Flask would
\* answer 500.
admin_add_income(b, form, header, ok, date, description, category, amount) ==
    LET valid == /\ valid_date(date)
                 /\ Strip(description) # "" /\ Strip(category) # ""
                 /\ parse_positive_float(amount) # NULL
    IN  /\ Dispatched(b, "admin.add_income", "POST", form, header)
        /\ LoggedIn(b)
        /\ IF valid
           THEN add_income(ok, _actor_email(b), date, Strip(description),
                           Strip(category), amount)
           ELSE UNCHANGED <<database, web>>
        /\ resp' = IF valid /\ ret'.exc # "none"
                   THEN Response(b, "admin.add_income", "POST", 500, "", TRUE, "")
                   ELSE Response(b, "admin.add_income", "POST", 302, "admin.income", TRUE,
                                 IF valid THEN "success" ELSE "error")

\* admin.add_customer behind login_required; no try/except either.
admin_add_customer(b, form, header, ok, name, service, amount_paid, total_amount) ==
    LET paid == parse_non_negative_float(amount_paid)
        total == parse_positive_float(total_amount)
        valid == /\ Strip(name) # "" /\ Strip(service) # ""
                 /\ total # NULL
                 /\ paid # NULL
                 /\ ~\E a \in paid, t \in total : FGreater(a, t)
    IN  /\ Dispatched(b, "admin.add_customer", "POST", form, header)
        /\ LoggedIn(b)
        /\ IF valid
           THEN add_customer(ok, _actor_email(b), Strip(name), Strip(service),
                             amount_paid, total_amount, "")
           ELSE UNCHANGED <<database, web>>
        /\ resp' = IF valid /\ ret'.exc # "none"
                   THEN Response(b, "admin.add_customer", "POST", 500, "", TRUE, "")
                   ELSE Response(b, "admin.add_customer", "POST", 302, "admin.customers",
                                 TRUE, IF valid THEN "success" ELSE "error")

\* How admin.add_invoice answers once database.add_invoice has returned or
\* raised: `except ValueError` and `except RuntimeError` flash an error, any
\* other exception leaves the view (500); the redirect follows in each
\* handled case.
add_invoice_response(b, outcome) ==
    IF outcome.exc \in {"none", "ValueError", "RuntimeError"}
    THEN Response(b, "admin.add_invoice", "POST", 302, "admin.invoices", TRUE,
                  IF outcome.exc = "none" THEN "success" ELSE "error")
    ELSE Response(b, "admin.add_invoice", "POST", 500, "", TRUE, "")

\* admin.add_invoice behind login_required, served by worker p, up to the
\* first session.commit() of database.add_invoice.
admin_add_invoice_begin(b, p, form, header, invoice_number, customer_id, date, amount) ==
    LET matches(n) == n \in {"X-1", "INV-A", "INV-B"}   \* ^[A-Za-z0-9\-]+$
        valid == /\ customer_id # 0
                 /\ get_customer(customer_id) # NULL
                 /\ valid_date(date)
                 /\ parse_positive_float(amount) # NULL
                 /\ (Strip(invoice_number) # "" => matches(Strip(invoice_number)))
    IN  /\ Dispatched(b, "admin.add_invoice", "POST", form, header)
        /\ LoggedIn(b)
        /\ IF valid
           THEN /\ add_invoice_begin(p, _actor_email(b), Strip(invoice_number),
                                     customer_id, date, amount)
                /\ resp' = IF calls'[p].pc = "idle" THEN add_invoice_response(b, ret')
                           ELSE resp
           ELSE /\ calls[p].pc = "idle"
                /\ resp' = Response(b, "admin.add_invoice", "POST", 302, "admin.invoices",
                                    TRUE, "error")
                /\ UNCHANGED <<database, web>>

\* An admin.add_invoice without its try/except.
admin_add_invoice_commit_uncaught(b, p, ok) ==
    /\ add_invoice_commit(p, ok)
    /\ resp' = IF calls'[p].pc # "idle" THEN resp
               ELSE IF ret'.exc = "none" THEN add_invoice_response(b, ret')
               ELSE Response(b, "admin.add_invoice", "POST", 500, "", TRUE, "")

\* The rest of the same request: one session.commit() of database.add_invoice
\* and, when the call is over, the answer.
admin_add_invoice_commit(b, p, ok) ==
    /\ add_invoice_commit(p, ok)
    /\ resp' = IF calls'[p].pc = "idle" THEN add_invoice_response(b, ret') ELSE resp

\* admin.delete_income behind login_required.
admin_delete_income(b, form, header, ok, id) ==
    /\ Dispatched(b, "admin.delete_income", "POST", form, header)
    /\ LoggedIn(b)
    /\ delete_income(ok, _actor_email(b), id)
    /\ resp' = Response(b, "admin.delete_income", "POST", 302, "admin.income", TRUE,
                        "info")

\* public.valid_email on the addresses used here.
valid_email(value) == value \in {"admin@benjomoments.com", "ann@example.com"}

\* public.contact and public.submit_contact, POST: the form is validated,
\* then stored with add_contact_message.
public_contact(b, endpoint, form, header, ok, name, email, message) ==
    /\ endpoint \in {"public.contact", "public.submit_contact"}
    /\ Dispatched(b, endpoint, "POST", form, header)
    /\ IF Strip(name) # "" /\ Strip(email) # "" /\ Strip(message) # ""
          /\ valid_email(Strip(email))
       THEN add_contact_message(ok, _actor_email(b), Strip(name), Strip(email), "", "",
                                Strip(message))
       ELSE UNCHANGED <<database, web>>
    /\ resp' = Response(b, endpoint, "POST", 302,
                        IF endpoint = "public.contact" THEN "public.contact"
                        ELSE "public.index", TRUE,
                        IF Strip(name) # "" /\ Strip(email) # "" /\ Strip(message) # ""
                           /\ valid_email(Strip(email))
                        THEN "success" ELSE "error")

\* public.contact, GET: the page with the contact form.
public_contact_page(b) ==
    /\ \E fresh \in FreshTokens :
          sessions' = [sessions EXCEPT ![b] = generate_csrf_token(@, fresh)]
    /\ resp' = Response(b, "public.contact", "GET", 200, "", TRUE, "")
    /\ UNCHANGED <<database, config>>

-----------------------------------------------------------------------------
(* Behaviours *)

\* The schema right after the migrations: every table is empty; no request
\* has been served.
EmptyDatabase ==
    /\ now = 0
    /\ income = <<>>
    /\ expenses = <<>>
    /\ customers = <<>>
    /\ invoices = <<>>
    /\ gallery = <<>>
    /\ audit = <<>>
    /\ ret = [exc |-> "none", value |-> ""]
    /\ users = <<>>
    /\ settings = <<>>
    /\ pricing = <<>>
    /\ assets = <<>>
    /\ messages = <<>>
    /\ hero = <<>>
    /\ sessions = [b \in Browsers |-> Anonymous]
    /\ resp = NoResponse

\* The data layer on an empty database, called from idle workers.
Start ==
    /\ EmptyDatabase
    /\ calls = [p \in 1..Workers |-> Idle]
    /\ config = DefaultConfig

\* The deployment config.py requires in production: DATABASE_URL is set and
\* names the PostgreSQL database.
Init == Start /\ dialect = "postgresql" /\ horizon = MaxTime


\* The ids of a table's rows and one id that no row has.
Ids(table) == 1..(Len(table) + 1)

\* Arguments of the back-office forms: valid values and one rejected amount;
\* an invoice names a customer that exists (the route looks it up first);
\* one invoice is created at a time; the audit write succeeds.
FormInputs ==
    [audit |-> {TRUE}, workers |-> {1},
     dates |-> {"2024-01-01", " 2024-01-02 "}, texts |-> {"Shoot"},
     amounts |-> {"0", "5", "-1"}, invoice_amounts |-> {"5"},
     numbers |-> {"", "X-1"},
     statuses |-> {"paid", "overdue"}, albums |-> {"weddings"}]

\* Arguments of direct calls of the invoice functions: a customer id no row
\* has, blank, colliding and absent invoice numbers, statuses in any case,
\* and add_invoice running on every worker at once.
DirectInputs ==
    [audit |-> {TRUE}, workers |-> 1..Workers,
     dates |-> {"2024-01-01", "2024-02-30"}, texts |-> {"Ann"},
     amounts |-> {"5"}, invoice_amounts |-> {"5", "abc"},
     numbers |-> {"", "  ", "INV-A"},
     statuses |-> {"PAID", " paid ", "Cancelled", "Pending", "overdue"}]

\* Arguments of direct calls of the customer functions: blank names, nan,
\* negative and unparsable amounts.
CustomerInputs ==
    [audit |-> {TRUE}, texts |-> {"Ann", " "},
     amounts |-> {"0", "5", "nan", "-1", "abc"}]

\* The whole back office on the production database.
Next ==
    \/ \E ok \in FormInputs.audit, actor \in Actors, d \in FormInputs.dates,
          t \in FormInputs.texts, a \in FormInputs.amounts :
          add_income(ok, actor, d, t, "Wedding", a) /\ UNCHANGED resp
    \/ \E ok \in FormInputs.audit, actor \in Actors, i \in Ids(income) :
          delete_income(ok, actor, i) /\ UNCHANGED resp
    \/ \E ok \in FormInputs.audit, actor \in Actors, i \in Ids(income) :
          restore_income(ok, actor, i) /\ UNCHANGED resp
    \/ \E ok \in FormInputs.audit, actor \in Actors, d \in FormInputs.dates,
          t \in FormInputs.texts, a \in FormInputs.amounts :
          add_expense(ok, actor, d, "Lens", t, a) /\ UNCHANGED resp
    \/ \E ok \in FormInputs.audit, actor \in Actors, i \in Ids(expenses) :
          delete_expense(ok, actor, i) /\ UNCHANGED resp
    \/ \E ok \in FormInputs.audit, actor \in Actors, i \in Ids(expenses) :
          restore_expense(ok, actor, i) /\ UNCHANGED resp
    \/ \E ok \in FormInputs.audit, actor \in Actors, n \in FormInputs.texts,
          a, t \in FormInputs.amounts :
          add_customer(ok, actor, n, "Wedding", a, t, "") /\ UNCHANGED resp
    \/ \E ok \in FormInputs.audit, actor \in Actors, c \in Ids(customers),
          a \in FormInputs.amounts :
          update_customer_payment(ok, actor, c, a) /\ UNCHANGED resp
    \/ \E ok \in FormInputs.audit, actor \in Actors, c \in Ids(customers) :
          delete_customer(ok, actor, c) /\ UNCHANGED resp
    \/ \E ok \in FormInputs.audit, actor \in Actors, c \in Ids(customers) :
          restore_customer(ok, actor, c) /\ UNCHANGED resp
    \/ \E actor \in Actors, p \in FormInputs.workers, n \in FormInputs.numbers,
          c \in DOMAIN customers, d \in FormInputs.dates,
          a \in FormInputs.invoice_amounts :
          add_invoice_begin(p, actor, n, c, d, a) /\ UNCHANGED resp
    \/ \E ok \in FormInputs.audit, p \in FormInputs.workers :
          add_invoice_commit(p, ok) /\ UNCHANGED resp
    \/ \E ok \in FormInputs.audit, actor \in Actors, i \in Ids(invoices),
          st \in FormInputs.statuses :
          update_invoice_status(ok, actor, i, st) /\ UNCHANGED resp
    \/ \E ok \in FormInputs.audit, actor \in Actors, i \in Ids(invoices) :
          delete_invoice(ok, actor, i) /\ UNCHANGED resp
    \/ \E ok \in FormInputs.audit, actor \in Actors, i \in Ids(invoices) :
          restore_invoice(ok, actor, i) /\ UNCHANGED resp
    \/ \E ok \in FormInputs.audit, actor \in Actors, al \in FormInputs.albums :
          add_gallery_image(ok, actor, "a.jpg", al, "") /\ UNCHANGED resp
    \/ \E ok \in FormInputs.audit, actor \in Actors, i \in Ids(gallery) :
          toggle_gallery_publish(ok, actor, i) /\ UNCHANGED resp
    \/ \E ok \in FormInputs.audit, actor \in Actors, i \in Ids(gallery) :
          delete_gallery_image(ok, actor, i) /\ UNCHANGED resp
    \/ \E ok \in FormInputs.audit, actor \in Actors, i \in Ids(gallery) :
          restore_gallery_image(ok, actor, i) /\ UNCHANGED resp

Spec == Init /\ [][Next]_vars

\* Invoices and their customers under direct, concurrent calls.
InitInvoices == Start /\ dialect = "postgresql" /\ horizon = MaxDirectTime

NextInvoices ==
    \/ \E ok \in DirectInputs.audit, actor \in Actors, n \in DirectInputs.texts,
          a, t \in DirectInputs.amounts :
          add_customer(ok, actor, n, "Wedding", a, t, "") /\ UNCHANGED resp
    \/ \E ok \in DirectInputs.audit, actor \in Actors, c \in Ids(customers) :
          delete_customer(ok, actor, c) /\ UNCHANGED resp
    \/ \E ok \in DirectInputs.audit, actor \in Actors, c \in Ids(customers) :
          restore_customer(ok, actor, c) /\ UNCHANGED resp
    \/ \E actor \in Actors, p \in DirectInputs.workers, n \in DirectInputs.numbers,
          c \in Ids(customers), d \in DirectInputs.dates,
          a \in DirectInputs.invoice_amounts :
          add_invoice_begin(p, actor, n, c, d, a) /\ UNCHANGED resp
    \/ \E ok \in DirectInputs.audit, p \in DirectInputs.workers :
          add_invoice_commit(p, ok) /\ UNCHANGED resp
    \/ \E ok \in DirectInputs.audit, actor \in Actors, i \in Ids(invoices),
          st \in DirectInputs.statuses :
          update_invoice_status(ok, actor, i, st) /\ UNCHANGED resp
    \/ \E ok \in DirectInputs.audit, actor \in Actors, i \in Ids(invoices) :
          delete_invoice(ok, actor, i) /\ UNCHANGED resp
    \/ \E ok \in DirectInputs.audit, actor \in Actors, i \in Ids(invoices) :
          restore_invoice(ok, actor, i) /\ UNCHANGED resp

SpecInvoices == InitInvoices /\ [][NextInvoices]_vars

\* Customers under direct calls, on either backend: PostgreSQL, or the
\* SQLite fallback of development.
InitCustomers ==
    Start /\ dialect \in {"postgresql", "sqlite"} /\ horizon = MaxCustomerTime

NextCustomers ==
    \/ \E ok \in CustomerInputs.audit, actor \in Actors, n \in CustomerInputs.texts,
          a, t \in CustomerInputs.amounts :
          add_customer(ok, actor, n, "Wedding", a, t, "") /\ UNCHANGED resp
    \/ \E ok \in CustomerInputs.audit, actor \in Actors, c \in Ids(customers),
          a \in CustomerInputs.amounts :
          update_customer_payment(ok, actor, c, a) /\ UNCHANGED resp
    \/ \E ok \in CustomerInputs.audit, actor \in Actors, c \in Ids(customers) :
          delete_customer(ok, actor, c) /\ UNCHANGED resp
    \/ \E ok \in CustomerInputs.audit, actor \in Actors, c \in Ids(customers) :
          restore_customer(ok, actor, c) /\ UNCHANGED resp

SpecCustomers == InitCustomers /\ [][NextCustomers]_vars

\* Arguments of direct calls of every mutating function: blank strings,
\* negative and unparsable amounts, a date that does not exist, a status
\* outside the allowed ones, a negative price; the audit write may fail.
\* Invoice numbers are supplied by the caller.
DataInputs ==
    [audit |-> BOOLEAN, workers |-> {1},
     dates |-> {"2024-01-01", "2024-02-30"}, texts |-> {"Ann", " "},
     amounts |-> {"0", "5", "-1", "abc"}, invoice_amounts |-> {"5", "abc"},
     numbers |-> {"INV-A"}, statuses |-> {"paid", "overdue"},
     prices |-> {300000, -1}]

InitData == Start /\ dialect = "postgresql" /\ horizon = MaxDataTime

\* Direct calls of the whole data layer.
NextData ==
    \/ \E ok \in DataInputs.audit, actor \in Actors, d \in DataInputs.dates,
          t \in DataInputs.texts, a \in DataInputs.amounts :
          add_income(ok, actor, d, t, "Wedding", a) /\ UNCHANGED resp
    \/ \E ok \in DataInputs.audit, actor \in Actors, i \in Ids(income) :
          delete_income(ok, actor, i) /\ UNCHANGED resp
    \/ \E ok \in DataInputs.audit, actor \in Actors, i \in Ids(income) :
          restore_income(ok, actor, i) /\ UNCHANGED resp
    \/ \E ok \in DataInputs.audit, actor \in Actors, d \in DataInputs.dates,
          t \in DataInputs.texts, a \in DataInputs.amounts :
          add_expense(ok, actor, d, "Lens", t, a) /\ UNCHANGED resp
    \/ \E ok \in DataInputs.audit, actor \in Actors, i \in Ids(expenses) :
          delete_expense(ok, actor, i) /\ UNCHANGED resp
    \/ \E ok \in DataInputs.audit, actor \in Actors, i \in Ids(expenses) :
          restore_expense(ok, actor, i) /\ UNCHANGED resp
    \/ \E ok \in DataInputs.audit, actor \in Actors, n \in DataInputs.texts,
          a, t \in DataInputs.amounts :
          add_customer(ok, actor, n, "Wedding", a, t, "") /\ UNCHANGED resp
    \/ \E ok \in DataInputs.audit, actor \in Actors, c \in Ids(customers),
          a \in DataInputs.amounts :
          update_customer_payment(ok, actor, c, a) /\ UNCHANGED resp
    \/ \E ok \in DataInputs.audit, actor \in Actors, c \in Ids(customers) :
          delete_customer(ok, actor, c) /\ UNCHANGED resp
    \/ \E ok \in DataInputs.audit, actor \in Actors, c \in Ids(customers) :
          restore_customer(ok, actor, c) /\ UNCHANGED resp
    \/ \E actor \in Actors, p \in DataInputs.workers, n \in DataInputs.numbers,
          c \in Ids(customers), d \in DataInputs.dates,
          a \in DataInputs.invoice_amounts :
          add_invoice_begin(p, actor, n, c, d, a) /\ UNCHANGED resp
    \/ \E ok \in DataInputs.audit, p \in DataInputs.workers :
          add_invoice_commit(p, ok) /\ UNCHANGED resp
    \/ \E ok \in DataInputs.audit, actor \in Actors, i \in Ids(invoices),
          s \in DataInputs.statuses :
          update_invoice_status(ok, actor, i, s) /\ UNCHANGED resp
    \/ \E ok \in DataInputs.audit, actor \in Actors, i \in Ids(invoices) :
          delete_invoice(ok, actor, i) /\ UNCHANGED resp
    \/ \E ok \in DataInputs.audit, actor \in Actors, i \in Ids(invoices) :
          restore_invoice(ok, actor, i) /\ UNCHANGED resp
    \/ \E ok \in DataInputs.audit, actor \in Actors, f \in DataInputs.texts :
          add_gallery_image(ok, actor, f, "weddings", "") /\ UNCHANGED resp
    \/ \E ok \in DataInputs.audit, actor \in Actors, i \in Ids(gallery) :
          toggle_gallery_publish(ok, actor, i) /\ UNCHANGED resp
    \/ \E ok \in DataInputs.audit, actor \in Actors, i \in Ids(gallery) :
          delete_gallery_image(ok, actor, i) /\ UNCHANGED resp
    \/ \E ok \in DataInputs.audit, actor \in Actors, i \in Ids(gallery) :
          restore_gallery_image(ok, actor, i) /\ UNCHANGED resp
    \/ \E ok \in DataInputs.audit, actor \in Actors, n \in DataInputs.texts,
          v \in DataInputs.amounts :
          add_asset(ok, actor, n, "Camera", v, "") /\ UNCHANGED resp
    \/ \E ok \in DataInputs.audit, actor \in Actors, i \in Ids(assets) :
          delete_asset(ok, actor, i) /\ UNCHANGED resp
    \/ \E ok \in DataInputs.audit, actor \in Actors, n \in DataInputs.texts :
          add_contact_message(ok, actor, n, "ann@example.com", "", "", "Hello")
          /\ UNCHANGED resp
    \/ \E ok \in DataInputs.audit, actor \in Actors, i \in Ids(messages) :
          mark_message_read(ok, actor, i) /\ UNCHANGED resp
    \/ \E ok \in DataInputs.audit, actor \in Actors, i \in Ids(messages) :
          delete_message(ok, actor, i) /\ UNCHANGED resp
    \/ \E ok \in DataInputs.audit, actor \in Actors, n \in DataInputs.texts,
          pr \in DataInputs.prices :
          add_pricing_package(ok, actor, n, pr, FALSE, 1) /\ UNCHANGED resp
    \/ \E ok \in DataInputs.audit, actor \in Actors, i \in Ids(pricing),
          n \in DataInputs.texts, pr \in DataInputs.prices :
          update_pricing_package(ok, actor, i, n, pr, TRUE, 2) /\ UNCHANGED resp
    \/ \E ok \in DataInputs.audit, actor \in Actors, i \in Ids(pricing) :
          delete_pricing_package(ok, actor, i) /\ UNCHANGED resp
    \/ \E ok \in DataInputs.audit, actor \in Actors, i \in Ids(pricing) :
          toggle_pricing_package(ok, actor, i) /\ UNCHANGED resp
    \/ \E ok \in DataInputs.audit, actor \in Actors, f \in DataInputs.texts :
          add_hero_image(ok, actor, f, 0) /\ UNCHANGED resp
    \/ \E ok \in DataInputs.audit, actor \in Actors, i \in Ids(hero) :
          delete_hero_image(ok, actor, i) /\ UNCHANGED resp
    \/ \E actor \in Actors, p \in DataInputs.workers, n \in DataInputs.texts :
          update_website_settings_begin(p, actor, n) /\ UNCHANGED resp
    \/ \E ok \in DataInputs.audit, p \in DataInputs.workers :
          update_website_settings_commit(p, ok) /\ UNCHANGED resp

SpecData == InitData /\ [][NextData]_vars

\* Deployments: test or production authentication, with or without a
\* default admin password.
BootConfigs ==
    {[TEST_AUTH_MODE |-> t, TEST_PIN |-> NULL, DEFAULT_ADMIN_PASSWORD |-> pw] :
        t \in BOOLEAN, pw \in {NULL, Some("admin123")}}

BootInputs == [audit |-> {TRUE}, workers |-> 1..Workers, texts |-> {"Studio"}]

\* No worker process runs yet.
InitBoot ==
    /\ EmptyDatabase
    /\ calls = [p \in 1..Workers |-> Down]
    /\ config \in BootConfigs
    /\ dialect = "postgresql"
    /\ horizon = MaxBootTime

\* Workers start, seed the defaults, serve the settings and pricing pages of
\* the back office, and are restarted.
NextBoot ==
    \/ \E p \in BootInputs.workers : create_app(p) /\ UNCHANGED resp
    \/ \E p \in BootInputs.workers : restart(p) /\ UNCHANGED resp
    \/ \E p \in BootInputs.workers : init_default_settings_begin(p) /\ UNCHANGED resp
    \/ \E p \in BootInputs.workers : init_default_settings_commit(p) /\ UNCHANGED resp
    \/ \E p \in BootInputs.workers :
          create_default_pricing_packages(p) /\ UNCHANGED resp
    \/ \E p \in BootInputs.workers : create_default_admin(p) /\ UNCHANGED resp
    \/ \E actor \in Actors, p \in BootInputs.workers, n \in BootInputs.texts :
          update_website_settings_begin(p, actor, n) /\ UNCHANGED resp
    \/ \E ok \in BootInputs.audit, p \in BootInputs.workers :
          update_website_settings_commit(p, ok) /\ UNCHANGED resp
    \/ \E ok \in BootInputs.audit, actor \in Actors, i \in DOMAIN pricing :
          /\ \E p \in BootInputs.workers : calls[p].pc = "idle"
          /\ delete_pricing_package(ok, actor, i) /\ UNCHANGED resp
    \/ \E ok \in BootInputs.audit, actor \in Actors, i \in DOMAIN pricing :
          /\ \E p \in BootInputs.workers : calls[p].pc = "idle"
          /\ toggle_pricing_package(ok, actor, i) /\ UNCHANGED resp

SpecBoot == InitBoot /\ [][NextBoot]_vars

\* Deployments: test mode without a PIN, with an empty and with a set
\* TEST_PIN, and production mode.
WebConfigs ==
    {[TEST_AUTH_MODE |-> t, TEST_PIN |-> pin, DEFAULT_ADMIN_PASSWORD |-> Some("admin123")] :
        t \in BOOLEAN, pin \in {NULL, Some(""), Some("1234")}}
    \ {[TEST_AUTH_MODE |-> FALSE, TEST_PIN |-> pin,
         DEFAULT_ADMIN_PASSWORD |-> Some("admin123")] : pin \in {Some(""), Some("1234")}}

\* What the browsers send: any method, tokens that match or not, credentials
\* that are blank, wrong or right, valid and invalid form fields; requests
\* that end before their view function go to a page and to form targets of the
\* admin blueprint, to logout, to login and to the contact forms.
WebInputs ==
    [audit |-> {TRUE}, methods |-> {"GET", "POST", "DELETE"},
     endpoints |-> {"admin.dashboard", "admin.add_income", "admin.delete_income",
                    "auth.logout", "auth.login", "public.contact",
                    "public.submit_contact"},
     tokens |-> {[form |-> f, header |-> ""] : f \in RequestTokens}
                \cup {[form |-> "", header |-> "tok1"]},
     emails |-> {"admin@benjomoments.com", "ann@example.com", " "},
     passwords |-> {"admin123", "1234", ""},
     dates |-> {"2024-01-01"}, texts |-> {"Shoot", " "}, amounts |-> {"5", "0"}]

\* The application has started: create_app has seeded the settings, the
\* packages and, in production mode, the default admin.
InitWeb ==
    /\ now = 0
    /\ income = <<>>
    /\ expenses = <<>>
    /\ customers = <<>>
    /\ invoices = <<>>
    /\ gallery = <<>>
    /\ audit = <<>>
    /\ ret = [exc |-> "none", value |-> ""]
    /\ config \in WebConfigs
    /\ users = IF config.TEST_AUTH_MODE THEN <<>>
               ELSE <<UserRow("Admin User", "admin@benjomoments.com", "admin123")>>
    /\ settings = <<SettingsRow("Benjo Moments", 0)>>
    /\ pricing = DefaultPackages
    /\ assets = <<>>
    /\ messages = <<>>
    /\ hero = <<>>
    /\ sessions = [b \in Browsers |-> Anonymous]
    /\ resp = NoResponse
    /\ calls = [p \in 1..Workers |-> Idle]
    /\ dialect = "postgresql"
    /\ horizon = MaxWebTime

\* The requests of the browsers, one served at a time.
NextWeb ==
    \/ \E b \in Browsers, e \in WebInputs.endpoints, m \in WebInputs.methods,
          tk \in WebInputs.tokens :
          protect_against_csrf(b, e, m, tk.form, tk.header)
    \/ \E b \in Browsers, e \in WebInputs.endpoints, m \in WebInputs.methods,
          tk \in WebInputs.tokens :
          method_not_allowed(b, e, m, tk.form, tk.header)
    \/ \E b \in Browsers, e \in WebInputs.endpoints, m \in WebInputs.methods,
          tk \in WebInputs.tokens :
          login_required(b, e, m, tk.form, tk.header)
    \/ \E b \in Browsers, m \in WebInputs.methods, email \in WebInputs.emails,
          password \in WebInputs.passwords, tk \in WebInputs.tokens :
          login(b, m, email, password, tk.form, tk.header)
    \/ \E b \in Browsers, tk \in WebInputs.tokens :
          logout(b, tk.form, tk.header)
    \/ \E b \in Browsers, e \in WebInputs.endpoints : admin_page(b, e)
    \/ \E b \in Browsers, tk \in WebInputs.tokens,
          ok \in WebInputs.audit, d \in WebInputs.dates, t \in WebInputs.texts,
          a \in WebInputs.amounts :
          admin_add_income(b, tk.form, tk.header, ok, d, t, "Wedding", a)
    \/ \E b \in Browsers, tk \in WebInputs.tokens,
          ok \in WebInputs.audit, i \in Ids(income) :
          admin_delete_income(b, tk.form, tk.header, ok, i)
    \/ \E b \in Browsers, e \in {"public.contact", "public.submit_contact"},
          tk \in WebInputs.tokens,
          ok \in WebInputs.audit, n \in WebInputs.texts :
          public_contact(b, e, tk.form, tk.header, ok, n, "ann@example.com", "Hello")
    \/ \E b \in Browsers : public_contact_page(b)

SpecWeb == InitWeb /\ [][NextWeb]_vars

\* Two request sessions at once: images and packages are added, packages are
\* deleted, and each worker serves toggle requests, one step at a time.
NextToggles ==
    \/ \E actor \in Actors, f \in DataInputs.texts :
          add_gallery_image(TRUE, actor, f, "", "") /\ UNCHANGED resp
    \/ \E actor \in Actors, n \in DataInputs.texts, pr \in DataInputs.prices :
          add_pricing_package(TRUE, actor, n, pr, FALSE, 1) /\ UNCHANGED resp
    \/ \E p \in 1..Workers, actor \in Actors, i \in Ids(gallery) :
          toggle_gallery_publish_begin(p, actor, i) /\ UNCHANGED resp
    \/ \E p \in 1..Workers :
          toggle_gallery_publish_commit(p, TRUE) /\ UNCHANGED resp
    \/ \E p \in 1..Workers, actor \in Actors, i \in Ids(pricing) :
          toggle_pricing_package_begin(p, actor, i) /\ UNCHANGED resp
    \/ \E p \in 1..Workers :
          toggle_pricing_package_commit(p, TRUE) /\ UNCHANGED resp
    \/ \E actor \in Actors, i \in Ids(pricing) :
          delete_pricing_package(TRUE, actor, i) /\ UNCHANGED resp

SpecToggles == InitData /\ [][NextToggles]_vars

\* The back office before its first request.
InitForms == Start /\ dialect = "postgresql" /\ horizon = MaxFormTime

\* The administrator's browser: it opens the login page, logs in, and
\* submits the income, customer and invoice forms with the token of its
\* session.
NextForms ==
    \/ \E b \in Browsers, m \in {"GET", "POST"} :
       \E form \in sessions[b]._csrf_token \cup {""} :
          login(b, m, "admin@benjo", "admin123", form, "")
    \/ \E b \in Browsers : \E form \in sessions[b]._csrf_token,
          ok \in FormInputs.audit, d \in FormInputs.dates, t \in FormInputs.texts,
          a \in FormInputs.amounts :
          admin_add_income(b, form, "", ok, d, t, "Wedding", a)
    \/ \E b \in Browsers : \E form \in sessions[b]._csrf_token,
          ok \in FormInputs.audit, n \in FormInputs.texts,
          a, t \in FormInputs.amounts :
          admin_add_customer(b, form, "", ok, n, "Wedding", a, t)
    \/ \E b \in Browsers : \E form \in sessions[b]._csrf_token,
          p \in FormInputs.workers, n \in FormInputs.numbers,
          c \in 0..(Len(customers) + 1), d \in FormInputs.dates,
          a \in FormInputs.amounts :
          admin_add_invoice_begin(b, p, form, "", n, c, d, a)
    \/ \E b \in Browsers, p \in FormInputs.workers, ok \in FormInputs.audit :
          admin_add_invoice_commit(b, p, ok)

SpecForms == InitForms /\ [][NextForms]_vars

-----------------------------------------------------------------------------
(* Properties *)

\* C1: in every reachable state no two rows of invoices, soft-deleted or
\* not, hold the same invoice_number, whatever the interleaving of
\* add_invoice calls with delete_invoice, restore_invoice and delete_customer.
InvoiceNumbersUnique ==
    \A i, j \in DOMAIN invoices :
        i # j => invoices[i].invoice_number # invoices[j].invoice_number

\* C1 witness: a worker of add_invoice is about to commit, for an existing
\* customer, the number that a soft-deleted invoice row already holds.
CommitCollidesWithDeletedInvoice ==
    \E p \in DOMAIN calls, i \in DOMAIN invoices :
        /\ calls[p].pc = "commit"
        /\ calls[p].customer_id \in DOMAIN customers
        /\ invoices[i].is_deleted
        /\ invoices[i].invoice_number = calls[p].num

\* a <= b on floats; False when either side is nan.
FLeq(a, b) == ~a.nan /\ ~b.nan /\ a.v <= b.v

\* C2: every customer row satisfies 0 <= amount_paid <= total_amount after
\* any sequence of add_customer and update_customer_payment calls.
PaidWithinTotal ==
    \A c \in DOMAIN customers :
        /\ FLeq(Num(0), customers[c].amount_paid)
        /\ FLeq(customers[c].amount_paid, customers[c].total_amount)

\* C2, the part that does hold: an amount_paid that is a number is never
\* negative and never above a total_amount that is a number.
PaidWithinTotalUnlessNaN ==
    \A c \in DOMAIN customers :
        /\ ~customers[c].amount_paid.nan => customers[c].amount_paid.v >= 0
        /\ ~customers[c].amount_paid.nan /\ ~customers[c].total_amount.nan =>
               customers[c].amount_paid.v <= customers[c].total_amount.v

\* C2 witness: a stored customer whose amount_paid is nan.
CustomerPaidNaN ==
    \E c \in DOMAIN customers : customers[c].amount_paid.nan

\* C3: every invoice row has a status in {pending, paid, cancelled},
\* including directly after add_invoice.
InvoiceStatusValid ==
    \A i \in DOMAIN invoices : invoices[i].status \in ValidStatuses

\* C3 witness: an invoice row as add_invoice left it, status "Pending".
InvoiceStatusCapitalised ==
    \E i \in DOMAIN invoices : invoices[i].status = DefaultStatus

\* Arguments the read-only operations are asked with.
QueryDates == 0..3

QueryLimits == 0..3

QueryAlbums == {"", "weddings", "portraits"}

\* The ids a listing of ordered rows returns.
Listed(results) == UNION {{s[k] : k \in DOMAIN s} : s \in results}

\* C4: no listing operation (get_all_income, get_all_expenses,
\* get_all_customers, get_customer, get_all_invoices, get_all_gallery_images,
\* get_published_gallery_images, get_income_by_date_range,
\* get_expenses_by_date_range, get_recent_transactions) returns a row whose
\* is_deleted flag is set, after any sequence of creates, deletes and restores.
ListingsHideDeleted ==
    /\ \A i \in Listed(get_all_income) : ~income[i].is_deleted
    /\ \A i \in Listed(get_all_expenses) : ~expenses[i].is_deleted
    /\ \A i \in get_all_customers : ~customers[i].is_deleted
    /\ \A c \in Ids(customers) : \A i \in get_customer(c) : ~customers[i].is_deleted
    /\ \A i \in get_all_invoices : ~invoices[i].is_deleted
    /\ \A i \in get_all_gallery_images : ~gallery[i].is_deleted
    /\ \A a \in QueryAlbums :
          \A i \in get_published_gallery_images(a) : ~gallery[i].is_deleted
    /\ \A d1, d2 \in QueryDates :
          /\ \A i \in Listed(get_income_by_date_range(d1, d2)) : ~income[i].is_deleted
          /\ \A i \in Listed(get_expenses_by_date_range(d1, d2)) :
                ~expenses[i].is_deleted
    /\ \A n \in QueryLimits : \A txs \in get_recent_transactions(n) :
          \A k \in DOMAIN txs :
             IF txs[k].type = "income"
             THEN ~income[txs[k].id].is_deleted
             ELSE ~expenses[txs[k].id].is_deleted

\* C4 witness: the income row of latest date is soft-deleted and an earlier
\* one is not, so that a listing has something to return and something to hide.
LatestIncomeDeleted ==
    \E i, j \in DOMAIN income :
        /\ income[i].is_deleted
        /\ ~income[j].is_deleted
        /\ income[i].date > income[j].date

\* The sum of f over the ids S, by removing one id at a time.
RECURSIVE SumOver(_, _)
SumOver(f, S) ==
    IF S = {} THEN Num(0)
    ELSE LET x == CHOOSE y \in S : TRUE
         IN  FAdd(f[x], SumOver(f, S \ {x}))

\* C5: get_total_income and get_total_expenses equal the sum of amount over
\* exactly the rows that are not soft-deleted, get_total_pending_balance
\* equals the sum of total_amount - amount_paid over exactly the customers
\* that are not soft-deleted, and each is 0 when there is no such row.
TotalsOverLiveRows ==
    /\ get_total_income =
          SumOver([i \in DOMAIN income |-> income[i].amount],
                  {i \in DOMAIN income : ~income[i].is_deleted})
    /\ get_total_expenses =
          SumOver([i \in DOMAIN expenses |-> expenses[i].amount],
                  {i \in DOMAIN expenses : ~expenses[i].is_deleted})
    /\ get_total_pending_balance =
          SumOver([i \in DOMAIN customers |->
                      FSub(customers[i].total_amount, customers[i].amount_paid)],
                  {i \in DOMAIN customers : ~customers[i].is_deleted})
    /\ (\A i \in DOMAIN income : income[i].is_deleted) => get_total_income = Num(0)
    /\ (\A i \in DOMAIN expenses : expenses[i].is_deleted) => get_total_expenses = Num(0)
    /\ (\A i \in DOMAIN customers : customers[i].is_deleted) =>
          get_total_pending_balance = Num(0)

\* C5 witness: the only income rows are soft-deleted rows of non-zero
\* amount, beside a live customer who still owes something.
TotalsWithDeletedRows ==
    /\ income # <<>>
    /\ \A i \in DOMAIN income : income[i].is_deleted /\ income[i].amount # Num(0)
    /\ \E j \in DOMAIN customers :
          /\ ~customers[j].is_deleted
          /\ customers[j].total_amount # customers[j].amount_paid

\* The five soft-deletable tables, by their position in `tables`.
Kinds == 1..5

\* The entity_type the audit entries of each kind carry.
EntityTypes == <<"income", "expense", "customer", "invoice", "gallery">>

\* A row with both soft-delete fields cleared.
Cleared(row) == [row EXCEPT !.is_deleted = FALSE, !.deleted_at = NULL]

\* Row i of the table of kind t is in the listing of its table.
InListing(t, i) ==
    CASE t = 1 -> i \in Listed(get_all_income)
      [] t = 2 -> i \in Listed(get_all_expenses)
      [] t = 3 -> i \in get_all_customers /\ get_customer(i) = Some(i)
      [] t = 4 -> i \in get_all_invoices
      [] t = 5 -> i \in get_all_gallery_images

\* The total computed over the table of kind t, and what a row adds to it.
TotalOf(t) ==
    CASE t = 1 -> get_total_income
      [] t = 2 -> get_total_expenses
      [] t = 3 -> get_total_pending_balance
      [] OTHER -> Num(0)

Weight(t, row) ==
    CASE t \in {1, 2} -> row.amount
      [] t = 3 -> FSub(row.total_amount, row.amount_paid)
      [] OTHER -> Num(0)

\* C6: for income, expense, customer, invoice and gallery rows a soft
\* delete followed by the matching restore is a round trip.  The step that
\* soft-deletes a listed row changes nothing of it but the two soft-delete
\* fields and takes it, with its amount, out of the listing and the total;
\* the step that restores a soft-deleted row gives the row with both fields
\* cleared and every data field as it was, and puts it, with its amount,
\* back into the listing and the total; no step removes a row.
DeleteRestoreRoundTrip ==
    [][\A t \in Kinds :
          /\ Len(tables[t]') >= Len(tables[t])
          /\ \A i \in DOMAIN tables[t] :
                /\ (~tables[t][i].is_deleted /\ tables[t]'[i].is_deleted) =>
                      /\ Cleared(tables[t]'[i]) = tables[t][i]
                      /\ InListing(t, i) /\ ~InListing(t, i)'
                      /\ TotalOf(t) = FAdd(TotalOf(t)', Weight(t, tables[t][i]))
                /\ (tables[t][i].is_deleted /\ ~tables[t]'[i].is_deleted) =>
                      /\ tables[t]'[i] = Cleared(tables[t][i])
                      /\ ~InListing(t, i) /\ InListing(t, i)'
                      /\ TotalOf(t)' = FAdd(TotalOf(t), Weight(t, tables[t][i]))]_vars

\* C6 witness: an invoice that was soft-deleted and restored is listed again.
InvoiceRestored ==
    \E k \in DOMAIN audit :
        /\ audit[k].action = "restore"
        /\ audit[k].entity_type = "invoice"
        /\ audit[k].entity_id \in get_all_invoices

\* The call that is a soft delete reaching row i of the table of kind t.
SoftDeleteOf(t, i) ==
    \E ok \in BOOLEAN, actor \in Actors :
        CASE t = 1 -> delete_income(ok, actor, i)
          [] t = 2 -> delete_expense(ok, actor, i)
          [] t = 3 -> delete_customer(ok, actor, i)
          [] t = 4 -> \/ delete_invoice(ok, actor, i)
                      \/ delete_customer(ok, actor, invoices[i].customer_id)
          [] t = 5 -> delete_gallery_image(ok, actor, i)

\* The call that is the restore of row i of the table of kind t.
RestoreOf(t, i) ==
    \E ok \in BOOLEAN, actor \in Actors :
        CASE t = 1 -> restore_income(ok, actor, i)
          [] t = 2 -> restore_expense(ok, actor, i)
          [] t = 3 -> restore_customer(ok, actor, i)
          [] t = 4 -> restore_invoice(ok, actor, i)
          [] t = 5 -> restore_gallery_image(ok, actor, i)

\* deleted_at is set exactly when is_deleted is true, in every row.
StampAgreesWithFlag ==
    \A t \in Kinds : \A i \in DOMAIN tables[t] :
        (tables[t][i].deleted_at # NULL) <=> tables[t][i].is_deleted

\* C7: in every reachable state, for every income, expense, customer,
\* invoice and gallery row, deleted_at is set if and only if is_deleted is
\* true; each soft delete sets both, each restore clears both, and no other
\* operation changes either one.
DeletedAtIffIsDeleted ==
    /\ []StampAgreesWithFlag
    /\ [][\A t \in Kinds : \A i \in DOMAIN tables[t] :
             /\ SoftDeleteOf(t, i) =>
                   tables[t]'[i].is_deleted /\ tables[t]'[i].deleted_at # NULL
             /\ RestoreOf(t, i) =>
                   ~tables[t]'[i].is_deleted /\ tables[t]'[i].deleted_at = NULL
             /\ (\/ tables[t]'[i].is_deleted # tables[t][i].is_deleted
                 \/ tables[t]'[i].deleted_at # tables[t][i].deleted_at) =>
                   SoftDeleteOf(t, i) \/ RestoreOf(t, i)]_vars

\* C7 witness: a row that was soft-deleted, restored and soft-deleted again
\* carries the stamp of its second delete.
DeletedAgainAfterRestore ==
    \E t \in Kinds : \E i \in DOMAIN tables[t] :
        /\ tables[t][i].is_deleted
        /\ \E k \in DOMAIN audit :
              /\ audit[k].action = "restore"
              /\ audit[k].entity_type = EntityTypes[t]
              /\ audit[k].entity_id = i
              /\ \E d \in tables[t][i].deleted_at : d > k

SpecInvoicesFair ==
    /\ SpecInvoices
    /\ \A p \in 1..Workers :
          WF_vars(\E ok \in DirectInputs.audit :
                     add_invoice_commit(p, ok) /\ UNCHANGED resp)

\* Worker p is inside the loop of an add_invoice call made with no number.
Generating(p) == calls[p].pc = "commit" /\ calls[p].invoice_number = ""

\* C9: add_invoice called with no invoice number (and an amount and a date
\* that pass validation) always terminates: it makes at most 20 attempts to
\* insert an invoice with a generated number, and either returns the number
\* of the one invoice it created or, every attempt having conflicted, raises
\* RuntimeError having created no invoice.
AddInvoiceGeneratedTerminates ==
    /\ [](\A p \in 1..Workers : Generating(p) => calls[p].attempt < MaxAttempts)
    /\ [][\A p \in 1..Workers :
             Generating(p) /\ calls'[p] # calls[p] =>
                \/ /\ calls'[p].pc = "commit"
                   /\ calls'[p].invoice_number = ""
                   /\ calls'[p].attempt = calls[p].attempt + 1
                   /\ invoices' = invoices
                \/ /\ calls'[p].pc = "idle"
                   /\ ret'.exc = "none"
                   /\ ret'.value = calls[p].num
                   /\ Len(invoices') = Len(invoices) + 1
                   /\ SubSeq(invoices', 1, Len(invoices)) = invoices
                   /\ invoices'[Len(invoices')].invoice_number = ret'.value
                \/ /\ calls'[p].pc = "idle"
                   /\ ret'.exc = "RuntimeError"
                   /\ invoices' = invoices]_vars
    /\ \A p \in 1..Workers : Generating(p) ~> (calls[p].pc = "idle")

\* C9 witness: the twentieth attempt of a call made with no number is about
\* to conflict.
TwentiethAttemptConflicts ==
    \E p \in 1..Workers :
        /\ Generating(p)
        /\ calls[p].attempt = MaxAttempts - 1
        /\ InsertConflicts(calls[p])

\* Worker p is about to commit a caller-supplied number that a row holds.
SuppliedNumberTaken(p) ==
    /\ calls[p].pc = "commit"
    /\ Strip(calls[p].invoice_number) # ""
    /\ \E i \in DOMAIN invoices : invoices[i].invoice_number = calls[p].num

\* C10: add_invoice called with a caller-supplied invoice number that
\* already belongs to an invoice row raises ValueError after a single
\* attempt and leaves the invoices table and the audit log unchanged; it
\* does not retry with a generated number.
SuppliedDuplicateRaisesValueError ==
    [][\A p \in 1..Workers :
          SuppliedNumberTaken(p) /\ calls'[p] # calls[p] =>
             /\ calls[p].attempt = 0
             /\ calls[p].num = Strip(calls[p].invoice_number)
             /\ ret'.exc = "ValueError"
             /\ calls'[p].pc = "idle"
             /\ invoices' = invoices
             /\ audit' = audit]_vars

\* C10 witness: a call with the supplied number INV-A is about to commit
\* while a live invoice row holds INV-A.
SuppliedNumberHeldByLiveInvoice ==
    \E p \in 1..Workers : \E i \in DOMAIN invoices :
        /\ calls[p].pc = "commit"
        /\ calls[p].invoice_number = "INV-A"
        /\ invoices[i].invoice_number = "INV-A"
        /\ ~invoices[i].is_deleted

\* A non-numeric or negative amount.
BadAmount(value) == ~ParseFloat(value).ok \/ FLess(ParseFloat(value).val, Num(0))

\* amount_paid greater than total_amount, both being amounts.
PaidAboveTotal(amount_paid, total_amount) ==
    /\ ~BadAmount(amount_paid)
    /\ ~BadAmount(total_amount)
    /\ FGreater(ParseFloat(amount_paid).val, ParseFloat(total_amount).val)

\* The call raised ValueError and left every table and the audit log alone.
RaisedValueError == ret'.exc = "ValueError" /\ UNCHANGED <<tables, content, audit>>

\* The step is a call, with invalid arguments, of one of the functions that
\* validate: add_income, add_expense, add_customer, update_customer_payment,
\* add_invoice, update_invoice_status, add_asset.
ValidatedCallWithInvalidInput ==
    \E ok \in DataInputs.audit, actor \in Actors :
       \/ \E d \in DataInputs.dates, t \in DataInputs.texts, a \in DataInputs.amounts :
             /\ BadAmount(a) \/ ~_validate_date(d).ok \/ IsBlank(t)
             /\ \/ add_income(ok, actor, d, t, "Wedding", a)
                \/ add_expense(ok, actor, d, "Lens", t, a)
       \/ \E n \in DataInputs.texts, a, t \in DataInputs.amounts :
             /\ IsBlank(n) \/ BadAmount(a) \/ BadAmount(t) \/ PaidAboveTotal(a, t)
             /\ add_customer(ok, actor, n, "Wedding", a, t, "")
       \/ \E c \in DOMAIN customers, a \in DataInputs.amounts :
             /\ \/ BadAmount(a)
                \/ /\ ~customers[c].is_deleted
                   /\ FGreater(ParseFloat(a).val, customers[c].total_amount)
             /\ update_customer_payment(ok, actor, c, a)
       \/ \E p \in DataInputs.workers, n \in DataInputs.numbers, c \in Ids(customers),
             d \in DataInputs.dates, a \in DataInputs.invoice_amounts :
             /\ BadAmount(a) \/ ~_validate_date(d).ok
             /\ add_invoice_begin(p, actor, n, c, d, a)
       \/ \E i \in Ids(invoices), s \in DataInputs.statuses :
             /\ Lower(Strip(s)) \notin ValidStatuses
             /\ update_invoice_status(ok, actor, i, s)
       \/ \E n \in DataInputs.texts, v \in DataInputs.amounts :
             /\ IsBlank(n) \/ BadAmount(v)
             /\ add_asset(ok, actor, n, "Camera", v, "")

\* The step is a call, with a blank required string or a negative price, of
\* one of the other functions that add or change a row.
UnvalidatedCallWithInvalidInput ==
    \E ok \in DataInputs.audit, actor \in Actors :
       \/ \E n \in DataInputs.texts :
             /\ IsBlank(n)
             /\ \/ add_contact_message(ok, actor, n, "ann@example.com", "", "", "Hello")
                \/ add_gallery_image(ok, actor, n, "weddings", "")
                \/ add_hero_image(ok, actor, n, 0)
       \/ \E n \in DataInputs.texts, pr \in DataInputs.prices :
             /\ IsBlank(n) \/ pr < 0
             /\ \/ add_pricing_package(ok, actor, n, pr, FALSE, 1)
                \/ \E i \in Ids(pricing) :
                      /\ Present(pricing, i)
                      /\ update_pricing_package(ok, actor, i, n, pr, TRUE, 2)

\* C11: a mutating data-layer operation given invalid input (a blank required
\* string, a non-numeric or negative amount, an invalid date, amount_paid
\* above total_amount, an invalid status) raises ValueError and leaves every
\* table, the audit log included, unchanged.
InvalidInputRaisesValueError ==
    [][ValidatedCallWithInvalidInput \/ UnvalidatedCallWithInvalidInput
       => RaisedValueError]_vars

\* C11, the part that holds: the functions that validate their arguments
\* raise ValueError on invalid input and change nothing.
ValidatedInputRaisesValueError ==
    [][ValidatedCallWithInvalidInput => RaisedValueError]_vars

\* C11 witness: add_contact_message was called with a blank name; it returned
\* normally and the message is stored.
BlankNameMessageStored ==
    /\ ret.exc = "none"
    /\ \E m \in DOMAIN messages : ~messages[m].removed /\ IsBlank(messages[m].name)
    /\ audit # <<>>
    /\ audit[Len(audit)].entity_type = "contact_message"
    /\ audit[Len(audit)].action = "create"

\* Every table of the application under the entity type its audit entries name.
AllTables ==
    [income |-> income, expense |-> expenses, customer |-> customers,
     invoice |-> invoices, gallery |-> gallery, asset |-> assets,
     contact_message |-> messages, pricing_package |-> pricing,
     hero_image |-> hero, website_settings |-> settings, user |-> users]

\* The rows of a table that the step added or changed.
ChangedIds(ty) ==
    {i \in DOMAIN AllTables'[ty] :
        i \notin DOMAIN AllTables[ty] \/ AllTables'[ty][i] # AllTables[ty][i]}

ChangedTypes == {ty \in DOMAIN AllTables : ChangedIds(ty) # {}}

\* The action an audit entry names for what the step did to row i.
ChangeKind(ty, i) ==
    LET old == AllTables[ty]
        new == AllTables'[ty]
    IN  IF i \notin DOMAIN old
        THEN IF ty = "website_settings" THEN "update" ELSE "create"
        ELSE IF "removed" \in DOMAIN new[i]
        THEN IF new[i].removed THEN "delete"
             ELSE IF ty = "pricing_package" /\ new[i].is_active # old[i].is_active
             THEN "toggle_active"
             ELSE "update"
        ELSE IF "is_deleted" \in DOMAIN new[i]
                /\ (new[i].is_deleted # old[i].is_deleted
                    \/ new[i].deleted_at # old[i].deleted_at)
        THEN IF new[i].is_deleted THEN "delete" ELSE "restore"
        ELSE IF ty = "gallery" /\ new[i].published # old[i].published
        THEN "toggle_publish"
        ELSE "update"

\* The step appended exactly one audit entry, and the entry names the actor,
\* the row that changed, its entity type and what was done to it; the only
\* other rows that changed are the invoices soft-deleted with their customer.
AuditedOnce ==
    /\ Len(audit') = Len(audit) + 1
    /\ SubSeq(audit', 1, Len(audit)) = audit
    /\ LET e == audit'[Len(audit')]
       IN  /\ e.user_email \in Actors
           /\ e.entity_type \in ChangedTypes
           /\ ChangedIds(e.entity_type) = {e.entity_id}
           /\ e.action = ChangeKind(e.entity_type, e.entity_id)
           /\ \A ty \in ChangedTypes \ {e.entity_type} :
                 /\ ty = "invoice"
                 /\ e.entity_type = "customer"
                 /\ e.action = "delete"
                 /\ \A i \in ChangedIds(ty) :
                       /\ invoices'[i].customer_id = e.entity_id
                       /\ invoices'[i].is_deleted

\* C12: every data-layer operation that commits a change to a table records
\* exactly one audit entry naming the actor, the action, the entity type and
\* the id of the row (the audit write succeeding).
CommittedChangeAudited == [][ChangedTypes # {} => AuditedOnce]_vars

\* C12, the part that holds: a call of a mutating function other than the
\* seeding helpers leaves one matching entry, or none when the audit write
\* failed.
CrudChangeAudited == [][ChangedTypes # {} => (audit' = audit \/ AuditedOnce)]_vars

\* C12 witness: the default settings, packages and admin have been seeded by
\* a worker that now serves requests, and the audit log is empty.
SeededWithoutAudit ==
    /\ \E p \in 1..Workers : calls[p].pc = "idle"
    /\ Len(settings) = 1
    /\ Len(pricing) = Len(DefaultPackages)
    /\ Len(users) = 1
    /\ audit = <<>>

\* C13: when the audit entry of a committed change cannot be written, the
\* failure is swallowed: the audit log stays as it was, the operation returns
\* normally and the change stays committed.
AuditFailureSwallowed ==
    [][ChangedTypes # {} /\ ~AuditedOnce
       => /\ audit' = audit
          /\ ret'.exc = "none"
          /\ ChangedTypes \subseteq {"income", "expense", "customer", "invoice",
                                     "gallery", "asset", "contact_message",
                                     "pricing_package", "hero_image",
                                     "website_settings"}]_vars

\* C13 witness: an income row was added, its audit entry could not be
\* written, and add_income returned normally.
IncomeStoredWithoutAuditEntry ==
    /\ now = 1
    /\ Len(income) = 1
    /\ audit = <<>>
    /\ ret.exc = "none"

\* C14: the audit log is append-only: every step keeps the entries the log
\* had, in their order and unchanged, and at most adds entries at its end.
AuditLogAppendOnly ==
    [][/\ Len(audit') >= Len(audit)
       /\ SubSeq(audit', 1, Len(audit)) = audit]_vars

\* C14 witness: an asset was created and then hard-deleted; the entry of its
\* creation is still the first of the log, followed by the one of the delete.
AssetGoneEntriesKept ==
    /\ Len(audit) = 2
    /\ \E a \in DOMAIN assets :
          /\ assets[a].removed
          /\ audit[1].action = "create" /\ audit[1].entity_type = "asset"
          /\ audit[1].entity_id = a
          /\ audit[2].action = "delete" /\ audit[2].entity_type = "asset"
          /\ audit[2].entity_id = a

\* The step serves a request, from a session without user_id, to a view
\* function behind login_required (an admin route or logout).
UnauthenticatedProtectedRequest ==
    /\ resp'.endpoint \in Protected
    /\ sessions[resp'.browser].user_id = NULL

RedirectToLogin(r) == r.status = 302 /\ r.location = "auth.login"

BadToken(session, form, header) ==
    LET token == IF form # "" THEN form ELSE header
    IN  \/ session._csrf_token = NULL
        \/ token = ""
        \/ session._csrf_token # Some(token)

\* The step serves this request of browser b.
RequestWith(b, e, m, form, header) ==
    \/ protect_against_csrf(b, e, m, form, header)
    \/ method_not_allowed(b, e, m, form, header)
    \/ login_required(b, e, m, form, header)
    \/ /\ e = "auth.login"
       /\ \E email \in WebInputs.emails, password \in WebInputs.passwords :
             login(b, m, email, password, form, header)
    \/ e = "auth.logout" /\ m = "POST" /\ logout(b, form, header)
    \/ /\ e = "admin.add_income" /\ m = "POST"
       /\ \E ok \in WebInputs.audit, d \in WebInputs.dates, t \in WebInputs.texts,
             a \in WebInputs.amounts :
             admin_add_income(b, form, header, ok, d, t, "Wedding", a)
    \/ /\ e = "admin.delete_income" /\ m = "POST"
       /\ \E ok \in WebInputs.audit, i \in Ids(income) :
             admin_delete_income(b, form, header, ok, i)
    \/ /\ m = "POST"
       /\ \E ok \in WebInputs.audit, n \in WebInputs.texts :
             public_contact(b, e, form, header, ok, n, "ann@example.com", "Hello")

\* The step serves a request with an unsafe method and a bad token.
UnsafeRequestWithBadToken ==
    \E b \in Browsers, e \in WebInputs.endpoints, m \in WebInputs.methods \cap Unsafe,
       tk \in WebInputs.tokens :
       /\ resp'.browser = b /\ resp'.endpoint = e /\ resp'.method = m
       /\ BadToken(sessions[b], tk.form, tk.header)
       /\ RequestWith(b, e, m, tk.form, tk.header)

\* C16: a POST, PUT, PATCH or DELETE request (admin, login, logout, contact
\* form) whose session has no CSRF token, which carries no token, or whose
\* token differs from the session's, is rejected with status 400 before any
\* handler runs; the database and the session stay unchanged.
BadTokenRejectedWith400 ==
    [][\/ /\ resp'.status = 400
          /\ ~resp'.ran
          /\ UNCHANGED <<database, sessions>>
       \/ ~UnsafeRequestWithBadToken]_vars

\* C16, the part that holds: such a request is rejected before any handler
\* runs and changes nothing; the status is 400 or 500.
BadTokenRejected ==
    [][\/ /\ resp'.status \in {400, 500}
          /\ ~resp'.ran
          /\ UNCHANGED <<database, sessions>>
       \/ ~UnsafeRequestWithBadToken]_vars

\* C16 witness: a POST whose csrf_token field holds a character outside
\* ASCII, in a session that has a token, was answered with 500.
TokenComparisonRaised ==
    /\ resp.status = 500
    /\ resp.method = "POST"
    /\ ~resp.ran
    /\ sessions[resp.browser]._csrf_token # NULL

\* The credentials the claim lets in: email and password non-empty and, in
\* production mode, a user with that email whose password verifies, in test
\* mode no TEST_PIN (pin_unset) or a password equal to TEST_PIN.
CredentialsAccepted(email, password, pin_unset) ==
    /\ email # ""
    /\ password # ""
    /\ IF config.TEST_AUTH_MODE
       THEN pin_unset \/ config.TEST_PIN = Some(password)
       ELSE \E u \in DOMAIN users :
               /\ users[u].email = email
               /\ check_password_hash(users[u].password_hash, password)

RedirectToDashboard(r) == r.status = 302 /\ r.location = "admin.dashboard"

\* The step serves a login POST with these credentials that got past the
\* CSRF hook.
LoginPost(b, email, password) ==
    /\ resp'.endpoint = "auth.login"
    /\ resp'.method = "POST"
    /\ resp'.browser = b
    /\ \E tk \in WebInputs.tokens : login(b, "POST", email, password, tk.form, tk.header)

AdminRequest(b) ==
    /\ resp'.browser = b
    /\ resp'.endpoint \in AdminPages \cup AdminPosts

\* The step is a logout of browser b that reached the view function.
LogoutOf(b) ==
    /\ resp'.browser = b
    /\ resp'.endpoint = "auth.logout"
    /\ resp'.ran

\* The step gives user_id to the session of b through an accepted login POST.
LoginOf(b) ==
    /\ resp'.browser = b
    /\ resp'.endpoint = "auth.login"
    /\ resp'.method = "POST"
    /\ resp'.ran
    /\ RedirectToDashboard(resp')

SettingsSingleton == Len(settings) <= 1

\* C19 witness: both workers have started and serve requests; each of them
\* found the table empty and added the default row.
TwoDefaultSettingsRows ==
    /\ \A p \in 1..Workers : calls[p].pc = "idle"
    /\ Len(settings) = 2
    /\ \A i \in DOMAIN settings : settings[i].site_name = "Benjo Moments"

\* Worker p, restarted, takes a step of the seeding.
SeedingRerunStep(p) ==
    /\ calls[p].pc \in {"init_default_settings", "init_default_settings_commit",
                        "create_default_pricing_packages", "create_default_admin"}
    /\ calls[p].again
    /\ calls'[p] # calls[p]

\* C20: the seeding at start is idempotent: run again by a restarted worker,
\* on a database where it already ran, it adds no row and changes no row.
SeedingIdempotent ==
    [][\A p \in 1..Workers :
          SeedingRerunStep(p) => UNCHANGED <<tables, content, audit>>]_vars

\* C20, the part that holds: it adds and changes nothing as long as a
\* pricing package is left in the table.
SeedingIdempotentWhilePackagesRemain ==
    [][\A p \in 1..Workers :
          SeedingRerunStep(p) /\ CountRows(pricing) > 0
          => UNCHANGED <<tables, content, audit>>]_vars

\* C20 witness: the three default packages were deleted in the back office
\* and are in the table again, under new ids, after a restart.
DefaultPackagesSeededAgain ==
    /\ Len(pricing) = 2 * Len(DefaultPackages)
    /\ \A i \in 1..Len(DefaultPackages) :
          /\ pricing[i].removed
          /\ pricing[Len(DefaultPackages) + i] = DefaultPackages[i]
    /\ \E p \in 1..Workers : calls[p].pc = "idle"

\* C21: restore_customer restores only the customer row.  The call on a
\* soft-deleted customer c puts c back into the customer listing and leaves
\* every invoice row as it was, so the invoices that delete_customer(c)
\* soft-deleted stay soft-deleted and unlisted; an invoice stops being
\* soft-deleted only in a restore_invoice call on that invoice.
RestoreCustomerLeavesInvoices ==
    [][/\ \A c \in DOMAIN customers :
             (/\ customers[c].is_deleted
              /\ \E ok \in BOOLEAN, actor \in Actors : restore_customer(ok, actor, c)) =>
                /\ c \in get_all_customers'
                /\ invoices' = invoices
       /\ \A i \in DOMAIN invoices :
             (invoices[i].is_deleted /\ ~invoices'[i].is_deleted) =>
                \E ok \in BOOLEAN, actor \in Actors : restore_invoice(ok, actor, i)]_vars

\* C21 witness: a customer that was deleted and restored is listed again
\* while an invoice of theirs is still soft-deleted, with the stamp of a
\* delete that came before the restore, and missing from the invoice listing.
CustomerRestoredInvoiceStillDeleted ==
    \E c \in get_all_customers : \E i \in DOMAIN invoices : \E k \in DOMAIN audit :
        /\ audit[k] = AuditEntry(audit[k].user_email, "restore", "customer", c)
        /\ invoices[i].customer_id = c
        /\ invoices[i].is_deleted
        /\ i \notin get_all_invoices
        /\ \E j \in 1..(k - 1) :
              audit[j] = AuditEntry(audit[j].user_email, "delete", "customer", c)

\* A data-layer call ends in this step: a call that runs in one step, an
\* add_invoice that raises before its first commit, or the last commit of
\* an add_invoice.
CallEnds ==
    \/ now' # now /\ calls' = calls
    \/ \E p \in DOMAIN calls : calls[p].pc = "commit" /\ calls'[p].pc = "idle"

\* The page each form route redirects to.
ListPage(endpoint) ==
    CASE endpoint = "admin.add_income"   -> "admin.income"
      [] endpoint = "admin.add_customer" -> "admin.customers"
      [] endpoint = "admin.add_invoice"  -> "admin.invoices"
      [] OTHER                           -> ""

\* C22: when the data-layer call made for an admin form submission
\* (add_income, add_customer, add_invoice) raises ValueError or RuntimeError,
\* the request is answered with the route's normal redirect and an error
\* flash message; the exception does not leave the view function (no 500).
DataLayerErrorFlashed ==
    [][(CallEnds /\ ret'.exc \in {"ValueError", "RuntimeError"}) =>
          /\ resp'.endpoint \in {"admin.add_income", "admin.add_customer",
                                 "admin.add_invoice"}
          /\ resp'.ran
          /\ resp'.status = 302
          /\ resp'.location = ListPage(resp'.endpoint)
          /\ resp'.flash = "error"]_vars

\* C22 witness: add_invoice raised ValueError for an invoice number that a
\* row already holds, and the administrator was redirected to the invoice
\* list with an error message.
DuplicateNumberFlashed ==
    /\ ret.exc = "ValueError"
    /\ resp.endpoint = "admin.add_invoice"
    /\ resp.status = 302 /\ resp.location = "admin.invoices"
    /\ resp.flash = "error"
    /\ \E i \in DOMAIN invoices : invoices[i].invoice_number = "X-1"
    /\ \A p \in DOMAIN calls : calls[p].pc = "idle"

\* The same for RuntimeError: no unused invoice number could be generated.
GenerationFailureFlashed ==
    /\ ret.exc = "RuntimeError"
    /\ resp.endpoint = "admin.add_invoice"
    /\ resp.status = 302 /\ resp.location = "admin.invoices"
    /\ resp.flash = "error"

\* The income and expense rows that are not soft-deleted, as the entries
\* get_recent_transactions makes of them.
LiveTransactions ==
    {[type |-> "income", id |-> i, date |-> income[i].date] :
        i \in {j \in DOMAIN income : ~income[j].is_deleted}}
    \cup {[type |-> "expense", id |-> i, date |-> expenses[i].date] :
             i \in {j \in DOMAIN expenses : ~expenses[j].is_deleted}}

\* C23: get_recent_transactions(limit) returns at most limit entries, latest
\* date first, and they are the limit most recent of the income and expense
\* rows that are not soft-deleted, taken together: as many as there are such
\* rows up to limit, each exactly once, and no row left out is later than a
\* row returned.  Taking the top limit of each table before the merge loses
\* nothing.
RecentTransactionsAreLatest ==
    \A n \in QueryLimits : \A txs \in get_recent_transactions(n) :
        LET got == {txs[k] : k \in DOMAIN txs}
        IN  /\ Len(txs) <= n
            /\ Len(txs) = IF Cardinality(LiveTransactions) < n
                          THEN Cardinality(LiveTransactions) ELSE n
            /\ \A j, k \in DOMAIN txs : j < k => txs[j].date >= txs[k].date
            /\ Cardinality(got) = Len(txs)
            /\ got \subseteq LiveTransactions
            /\ \A x \in LiveTransactions \ got : \A y \in got : x.date <= y.date

\* C23 witness: two live income rows and two live expense rows of different
\* dates, so that limit 2 cuts each table's list and the merged list, and the
\* two entries returned are one income and one expense of the later date.
RecentMixesBothTables ==
    /\ \E i, j \in DOMAIN income :
          /\ ~income[i].is_deleted /\ ~income[j].is_deleted
          /\ income[i].date < income[j].date
    /\ \E i, j \in DOMAIN expenses :
          /\ ~expenses[i].is_deleted /\ ~expenses[j].is_deleted
          /\ expenses[i].date < expenses[j].date
    /\ \E txs \in get_recent_transactions(2) :
          /\ Len(txs) = 2
          /\ txs[1].type # txs[2].type
          /\ txs[1].date = txs[2].date

\* C24: in every reachable state every invoice that get_all_invoices returns
\* belongs to a customer that is not soft-deleted, after any sequence of
\* add_invoice, delete_customer, restore_customer, delete_invoice and
\* restore_invoice.
ListedInvoicesHaveLiveCustomer ==
    \A i \in get_all_invoices : ~customers[invoices[i].customer_id].is_deleted

\* C24 witness: an invoice that was soft-deleted together with its customer
\* has been restored on its own and is listed while the customer is still
\* soft-deleted.
RestoredInvoiceOfDeletedCustomer ==
    \E i \in get_all_invoices : \E k \in DOMAIN audit :
        /\ customers[invoices[i].customer_id].is_deleted
        /\ audit[k] = AuditEntry(audit[k].user_email, "restore", "invoice", i)

\* C24, the other way in: add_invoice accepts the id of a soft-deleted
\* customer, and the new invoice is listed.
InvoiceAddedToDeletedCustomer ==
    \E i \in get_all_invoices :
        /\ customers[invoices[i].customer_id].is_deleted
        /\ \A k \in DOMAIN audit :
              audit[k].action = "restore" => audit[k].entity_type # "invoice"
        /\ \E k \in DOMAIN audit :
              /\ audit[k] = AuditEntry(audit[k].user_email, "create", "invoice", i)
              /\ \E j \in 1..(k - 1) :
                    audit[j] = AuditEntry(audit[j].user_email, "delete", "customer",
                                          invoices[i].customer_id)

\* C25: a soft-deleted row is changed only by its restore operation:
\* update_customer_payment, update_invoice_status and toggle_gallery_publish
\* called with the id of a soft-deleted row leave that row unchanged and
\* record no audit entry.
SoftDeletedRowsFrozen ==
    [][/\ \A c \in DOMAIN customers :
             (/\ customers[c].is_deleted
              /\ \E ok \in BOOLEAN, actor \in Actors, a \in FormInputs.amounts :
                    update_customer_payment(ok, actor, c, a)) =>
                customers'[c] = customers[c] /\ audit' = audit
       /\ \A i \in DOMAIN invoices :
             (/\ invoices[i].is_deleted
              /\ \E ok \in BOOLEAN, actor \in Actors, st \in FormInputs.statuses :
                    update_invoice_status(ok, actor, i, st)) =>
                invoices'[i] = invoices[i] /\ audit' = audit
       /\ \A g \in DOMAIN gallery :
             (/\ gallery[g].is_deleted
              /\ \E ok \in BOOLEAN, actor \in Actors :
                    toggle_gallery_publish(ok, actor, g)) =>
                gallery'[g] = gallery[g] /\ audit' = audit]_vars

\* C25 witness: an invoice was soft-deleted and then marked paid: the row is
\* still soft-deleted, its status is "paid", and the update is in the audit
\* log after the delete.
DeletedInvoiceMarkedPaid ==
    \E i \in DOMAIN invoices : \E j, k \in DOMAIN audit :
        /\ invoices[i].is_deleted
        /\ invoices[i].status = "paid"
        /\ j < k
        /\ audit[j] = AuditEntry(audit[j].user_email, "delete", "invoice", i)
        /\ audit[k] = AuditEntry(audit[k].user_email, "update", "invoice", i)

\* The same for the gallery: a soft-deleted image was unpublished.
DeletedImageToggled ==
    \E g \in DOMAIN gallery : \E j, k \in DOMAIN audit :
        /\ gallery[g].is_deleted
        /\ ~gallery[g].published
        /\ j < k
        /\ audit[j] = AuditEntry(audit[j].user_email, "delete", "gallery", g)
        /\ audit[k] = AuditEntry(audit[k].user_email, "toggle_publish", "gallery", g)

\* And for customers: the payment of a soft-deleted customer was changed.
DeletedCustomerPaymentChanged ==
    \E c \in DOMAIN customers : \E j, k \in DOMAIN audit :
        /\ customers[c].is_deleted
        /\ j < k
        /\ audit[j] = AuditEntry(audit[j].user_email, "delete", "customer", c)
        /\ audit[k] = AuditEntry(audit[k].user_email, "update", "customer", c)
        /\ \A m \in (j + 1)..Len(audit) :
              audit[m] # AuditEntry(audit[m].user_email, "restore", "customer", c)

\* Row i of the table of an entity type exists (and is not what a hard
\* delete left behind).
RowExists(table, i) ==
    /\ i \in DOMAIN table
    /\ "removed" \in DOMAIN table[i] => ~table[i].removed

\* C26: an audit entry is written only after the change it names has
\* committed.  Whenever the audit log grows it grows by one entry, in a call
\* that returns normally (it was not rejected by validation and not rolled
\* back), and the entry names a row that exists: a row the step has just
\* inserted for "create", a row that was there before the step for the
\* other actions; no other row of that table changes in the step, and a
\* "delete" or "restore" entry comes with the row in that condition.
AuditOnlyAfterCommit ==
    [][audit' # audit =>
          /\ Len(audit') = Len(audit) + 1
          /\ SubSeq(audit', 1, Len(audit)) = audit
          /\ ret'.exc = "none"
          /\ LET e == audit'[Len(audit')]
                 old == AllTables[e.entity_type]
                 new == AllTables'[e.entity_type]
                 inserts == e.action = "create"
                            \/ (e.entity_type = "website_settings" /\ old = <<>>)
             IN  /\ e.entity_type \in DOMAIN AllTables
                 /\ e.entity_id \in DOMAIN new
                 /\ ChangedIds(e.entity_type) \subseteq {e.entity_id}
                 /\ IF inserts
                    THEN e.entity_id \notin DOMAIN old /\ RowExists(new, e.entity_id)
                    ELSE RowExists(old, e.entity_id)
                 /\ e.action = "restore" =>
                       old[e.entity_id].is_deleted /\ ~new[e.entity_id].is_deleted
                 /\ e.action = "delete" =>
                       IF "is_deleted" \in DOMAIN old[e.entity_id]
                       THEN new[e.entity_id].is_deleted
                       ELSE ~RowExists(new, e.entity_id)]_vars

\* C26 witness: a call has just raised ValueError (a rejected argument or a
\* rolled-back insert) and the newest audit entry is still the creation of
\* the one invoice there is.
RaisedCallLeftNoEntry ==
    /\ ret.exc = "ValueError"
    /\ Len(invoices) = 1
    /\ audit # <<>>
    /\ audit[Len(audit)] = AuditEntry(audit[Len(audit)].user_email, "create", "invoice", 1)
    /\ \A p \in DOMAIN calls : calls[p].pc = "idle"

\* C27: a generated invoice number is never the number of an existing
\* invoice row, soft-deleted rows included.  When add_invoice draws a number
\* (on its first pass or after a conflict) no row holds it; when the invoice
\* is inserted no other row holds its number; and the step that restores a
\* soft-deleted invoice leaves no two listed invoices with the same number.
GeneratedNumberUnused ==
    [][/\ \A p \in DOMAIN calls :
             /\ (/\ calls'[p].pc = "commit"
                 /\ Strip(calls'[p].invoice_number) = ""
                 /\ calls'[p] # calls[p]) =>
                   \A i \in DOMAIN invoices' :
                      invoices'[i].invoice_number # calls'[p].num
             /\ (/\ calls[p].pc = "commit"
                 /\ Strip(calls[p].invoice_number) = ""
                 /\ calls'[p].pc = "idle"
                 /\ Len(invoices') = Len(invoices) + 1) =>
                   /\ invoices'[Len(invoices')].invoice_number = calls[p].num
                   /\ \A i \in DOMAIN invoices :
                         invoices[i].invoice_number # calls[p].num
       /\ \A i \in DOMAIN invoices :
             (invoices[i].is_deleted /\ ~invoices'[i].is_deleted) =>
                \A j, k \in get_all_invoices' :
                   j # k => invoices'[j].invoice_number # invoices'[k].invoice_number]_vars

\* C27 witness: a soft-deleted invoice holds one of the numbers the generator
\* can draw, and a worker of add_invoice, called with no number, is about to
\* commit a generated number: the other one.
GeneratorAvoidedDeletedNumber ==
    \E p \in DOMAIN calls, i \in DOMAIN invoices :
        /\ calls[p].pc = "commit"
        /\ calls[p].invoice_number = ""
        /\ invoices[i].is_deleted
        /\ invoices[i].invoice_number \in GenSpace
        /\ calls[p].num \in GenSpace \ {invoices[i].invoice_number}

\* The ids an operation on a table may be called with and that have no row:
\* the next unused id and the ids of hard-deleted rows.
MissingIds(table) == {i \in Ids(table) : ~RowExists(table, i)}

\* The step is a delete, restore, toggle or mark-read called with an id that
\* has no row, or an update called with such an id and arguments that do
\* (valid = TRUE) or do not (valid = FALSE) pass the function's validation.
CallOnMissingRow(valid) ==
    \E ok \in BOOLEAN, actor \in Actors :
        \/ /\ valid
           /\ \/ \E i \in MissingIds(income) :
                    delete_income(ok, actor, i) \/ restore_income(ok, actor, i)
              \/ \E i \in MissingIds(expenses) :
                    delete_expense(ok, actor, i) \/ restore_expense(ok, actor, i)
              \/ \E i \in MissingIds(customers) :
                    delete_customer(ok, actor, i) \/ restore_customer(ok, actor, i)
              \/ \E i \in MissingIds(invoices) :
                    delete_invoice(ok, actor, i) \/ restore_invoice(ok, actor, i)
              \/ \E i \in MissingIds(gallery) :
                    \/ delete_gallery_image(ok, actor, i)
                    \/ restore_gallery_image(ok, actor, i)
                    \/ toggle_gallery_publish(ok, actor, i)
              \/ \E i \in MissingIds(assets) : delete_asset(ok, actor, i)
              \/ \E i \in MissingIds(messages) :
                    mark_message_read(ok, actor, i) \/ delete_message(ok, actor, i)
              \/ \E i \in MissingIds(pricing) :
                    \/ delete_pricing_package(ok, actor, i)
                    \/ toggle_pricing_package(ok, actor, i)
                    \/ \E n \in DataInputs.texts, pr \in DataInputs.prices :
                          update_pricing_package(ok, actor, i, n, pr, TRUE, 2)
              \/ \E i \in MissingIds(hero) : delete_hero_image(ok, actor, i)
        \/ \E i \in MissingIds(customers), a \in DataInputs.amounts :
              /\ _validate_amount(a).ok = valid
              /\ update_customer_payment(ok, actor, i, a)
        \/ \E i \in MissingIds(invoices), st \in DataInputs.statuses :
              /\ (Lower(Strip(st)) \in ValidStatuses) = valid
              /\ update_invoice_status(ok, actor, i, st)

\* The step is a restore called on a row that is not soft-deleted.
RestoreOfLiveRow ==
    \E ok \in BOOLEAN, actor \in Actors :
        \/ \E i \in DOMAIN income : ~income[i].is_deleted /\ restore_income(ok, actor, i)
        \/ \E i \in DOMAIN expenses :
              ~expenses[i].is_deleted /\ restore_expense(ok, actor, i)
        \/ \E i \in DOMAIN customers :
              ~customers[i].is_deleted /\ restore_customer(ok, actor, i)
        \/ \E i \in DOMAIN invoices :
              ~invoices[i].is_deleted /\ restore_invoice(ok, actor, i)
        \/ \E i \in DOMAIN gallery :
              ~gallery[i].is_deleted /\ restore_gallery_image(ok, actor, i)

\* The step changes no table and appends no audit entry.
NothingStored == UNCHANGED <<tables, content, audit>>

LoginSucceeds(b) == LoginOf(b) /\ resp'.flash = "success"

\* The step serves a state-changing request of browser b that carries a
\* token which is not the token of its session.
RequestWithOtherToken(b) ==
    /\ resp'.browser = b
    /\ resp'.method \in Unsafe
    /\ \E tk \in WebInputs.tokens :
          /\ (IF tk.form # "" THEN tk.form ELSE tk.header) \in Tokens
          /\ sessions[b]._csrf_token # Some(IF tk.form # "" THEN tk.form ELSE tk.header)
          /\ RequestWith(b, resp'.endpoint, resp'.method, tk.form, tk.header)

\* C29: a successful login discards everything the session held before it
\* and installs a newly generated CSRF token, so a CSRF token issued to that
\* session before the login is rejected with 400 on every state-changing
\* request made after the login.  Step by step: the accepted login leaves a
\* session that holds the user and a token the session did not hold before
\* and nothing else; a session's token is only ever replaced by none or by a
\* newly generated one; and a state-changing request carrying a token that is
\* not the session's is answered 400 before any handler runs, with the
\* database and the session unchanged.
LoginReplacesToken ==
    [][\A b \in Browsers :
          /\ \/ /\ sessions'[b].user_id # NULL
                /\ sessions'[b].user_email # NULL
                /\ sessions'[b]._csrf_token # NULL
                /\ sessions'[b]._csrf_token \subseteq FreshTokens
                /\ sessions[b].user_id = NULL
             \/ ~LoginSucceeds(b)
          /\ \/ sessions'[b]._csrf_token = sessions[b]._csrf_token
             \/ sessions'[b]._csrf_token \subseteq FreshTokens
          /\ \/ /\ resp'.status = 400
                /\ ~resp'.ran
                /\ UNCHANGED <<database, sessions>>
             \/ ~RequestWithOtherToken(b)]_vars

\* C29 witness: a logged-in session sent a POST and was answered 400 by the
\* CSRF hook: the login gave it a token, and the request carried another.
StaleTokenRejectedAfterLogin ==
    /\ resp.status = 400
    /\ resp.method = "POST"
    /\ ~resp.ran
    /\ sessions[resp.browser].user_id # NULL
    /\ sessions[resp.browser]._csrf_token # NULL

\* The toggles of the row that have committed, counted by their audit
\* entries.
Toggled(entity_type, entity_id) ==
    Cardinality({k \in DOMAIN audit :
                    /\ audit[k].action \in {"toggle_publish", "toggle_active"}
                    /\ audit[k].entity_type = entity_type
                    /\ audit[k].entity_id = entity_id})

NoRequestInFlight == \A p \in DOMAIN calls : calls[p].pc = "idle"

\* C30: two toggle requests on the same gallery image or the same pricing
\* package, in any interleaving of their read, write and commit steps across
\* two request sessions, leave the flag equal to its value before both
\* requests (TRUE, as add_gallery_image and add_pricing_package store it), as
\* two sequential toggles do.
TwoTogglesRestoreFlag ==
    NoRequestInFlight =>
        /\ \A i \in DOMAIN gallery :
              Toggled("gallery", i) = 2 => gallery[i].published
        /\ \A i \in DOMAIN pricing :
              Present(pricing, i) /\ Toggled("pricing_package", i) = 2
                 => pricing[i].is_active

\* C30, where the claim fails: both requests on an image have committed and
\* the image is left unpublished; each read the flag before the other wrote.
SecondToggleLost ==
    /\ NoRequestInFlight
    /\ \E i \in DOMAIN gallery : Toggled("gallery", i) = 2 /\ ~gallery[i].published

\* The same for a pricing package.
SecondPackageToggleLost ==
    /\ NoRequestInFlight
    /\ \E i \in DOMAIN pricing :
          Present(pricing, i) /\ Toggled("pricing_package", i) = 2 /\ ~pricing[i].is_active

\* Two toggles served one after the other do restore the flag.
SequentialTogglesRestored ==
    /\ NoRequestInFlight
    /\ \E i \in DOMAIN gallery : Toggled("gallery", i) = 2 /\ gallery[i].published

====
